---- MODULE Spec2Model ----
(***************************************************************************)
(* Model of storecrypt's variant-resolving storage (pkg/storage/dynstor.go) *)
(* on top of a key/value backend (the in-memory backend of the unit tests   *)
(* and the local-filesystem backend of localfs.go).                         *)
(*                                                                          *)
(* Names are sequences of tokens: a directory, the separator "/", a base    *)
(* name and the extension tokens ".gz", ".zst", ".aes".  strings.HasSuffix  *)
(* (name, ".gz.aes") is then "the last two tokens are .gz and .aes".        *)
(* Stored bytes are a payload with the stack of transforms applied to it    *)
(* (compression first, encryption last); decoding pops layers and fails on  *)
(* a layer it does not find.                                                *)
(***************************************************************************)
EXTENDS Integers, Sequences, FiniteSets, TLC

VARIABLES kind, files, dirs, call, pre, faults, race

vars == <<kind, files, dirs, call, pre, faults, race>>

----------------------------------------------------------------------------
(* Bounds and input sets *)

\* largest number of objects the backend holds
MaxFiles == 2

\* longest path list given to DeleteAllBulk
MaxBulk == 2

\* most extension tokens after the base of a name given to decodePath
MaxExts == 2

Data == {"x", "y"}

Slash == <<"/">>

Dir == <<"w">> \o Slash

Bases == {"a", "b"}

Nil == "nil"

\* the error of fs.ErrNotExist itself
ErrNotExist == "fs.ErrNotExist"

\* os errors of the local backend that wrap ENOENT: errors.Is(err, fs.ErrNotExist)
ErrENOENT == "ENOENT"

\* errors.New("file not found") of the in-memory backend: a plain error
ErrFileNotFound == "file not found"

\* errors.New("writeExt not supported by provided algorithms")
ErrWriteExt == "writeExt not supported by provided algorithms"

\* errors.Is(err, fs.ErrNotExist)
IsErrNotExist(err) == err \in {ErrNotExist, ErrENOENT}

----------------------------------------------------------------------------
(* Strings *)

HasSuffix(s, suffix) ==
  /\ Len(s) >= Len(suffix)
  /\ SubSeq(s, Len(s) - Len(suffix) + 1, Len(s)) = suffix

TrimSuffix(s, suffix) ==
  IF HasSuffix(s, suffix) THEN SubSeq(s, 1, Len(s) - Len(suffix)) ELSE s

HasPrefix(s, prefix) ==
  /\ Len(s) >= Len(prefix)
  /\ SubSeq(s, 1, Len(prefix)) = prefix

\* filepath.ToSlash where the separator is '/': the path unchanged
ToSlash(path) == path

----------------------------------------------------------------------------
(* Algorithms and instances *)

\* Algorithms: each field is nil (FALSE) or configured (TRUE)
AlgSets == [Gzip : BOOLEAN, Zstd : BOOLEAN, AES : BOOLEAN]

ExtGzAes == <<".gz", ".aes">>
ExtZstAes == <<".zst", ".aes">>
ExtGz == <<".gz">>
ExtZst == <<".zst">>
ExtAes == <<".aes">>
ExtPlain == <<>>

\* the suffix combinations of dynstor.go
AllExts == {ExtGzAes, ExtZstAes, ExtGz, ExtZst, ExtAes, ExtPlain}

\* validation that accepts a combined suffix when either algorithm is there
isSupportedWriteExtEither(alg, ext) ==
  CASE ext = ExtPlain -> TRUE
    [] ext = ExtGz -> alg.Gzip
    [] ext = ExtZst -> alg.Zstd
    [] ext = ExtGzAes -> alg.Gzip \/ alg.AES
    [] ext = ExtZstAes -> alg.Zstd \/ alg.AES
    [] ext = ExtAes -> alg.AES
    [] OTHER -> FALSE

isSupportedWriteExt(alg, ext) ==
  CASE ext = ExtPlain -> TRUE
    [] ext = ExtGz -> alg.Gzip
    [] ext = ExtZst -> alg.Zstd
    [] ext = ExtGzAes -> alg.Gzip /\ alg.AES
    [] ext = ExtZstAes -> alg.Zstd /\ alg.AES
    [] ext = ExtAes -> alg.AES
    [] OTHER -> FALSE

\* the nil *VariadicStorage
NilStorage == [alg |-> [Gzip |-> FALSE, Zstd |-> FALSE, AES |-> FALSE],
               writeExt |-> <<Nil>>]

\* NewVariadicStorage: the instance, or nil with an error
NewVariadicStorage(alg, writeExt) ==
  IF ~isSupportedWriteExt(alg, writeExt)
    THEN [vs |-> NilStorage, err |-> ErrWriteExt]
    ELSE [vs |-> [alg |-> alg, writeExt |-> writeExt], err |-> Nil]

\* the instances that can be constructed
Instances ==
  {NewVariadicStorage(alg, w).vs : alg \in AlgSets, w \in AllExts} \ {NilStorage}

\* supportedExts without the AES-only variant
supportedExtsNoAesOnly(vs) ==
  (IF vs.alg.Gzip /\ vs.alg.AES THEN <<ExtGzAes>> ELSE <<>>)
  \o (IF vs.alg.Zstd /\ vs.alg.AES THEN <<ExtZstAes>> ELSE <<>>)
  \o (IF vs.alg.Gzip THEN <<ExtGz>> ELSE <<>>)
  \o (IF vs.alg.Zstd THEN <<ExtZst>> ELSE <<>>)
  \o <<ExtPlain>>

\* supportedExts with the single-transform suffixes before the combined ones
supportedExtsSingleFirst(vs) ==
  (IF vs.alg.Gzip THEN <<ExtGz>> ELSE <<>>)
  \o (IF vs.alg.Zstd THEN <<ExtZst>> ELSE <<>>)
  \o (IF vs.alg.AES THEN <<ExtAes>> ELSE <<>>)
  \o (IF vs.alg.Gzip /\ vs.alg.AES THEN <<ExtGzAes>> ELSE <<>>)
  \o (IF vs.alg.Zstd /\ vs.alg.AES THEN <<ExtZstAes>> ELSE <<>>)
  \o <<ExtPlain>>

supportedExts(vs) ==
  (IF vs.alg.Gzip /\ vs.alg.AES THEN <<ExtGzAes>> ELSE <<>>)
  \o (IF vs.alg.Zstd /\ vs.alg.AES THEN <<ExtZstAes>> ELSE <<>>)
  \o (IF vs.alg.Gzip THEN <<ExtGz>> ELSE <<>>)
  \o (IF vs.alg.Zstd THEN <<ExtZst>> ELSE <<>>)
  \o (IF vs.alg.AES THEN <<ExtAes>> ELSE <<>>)
  \o <<ExtPlain>>

\* transformsFromName that looks for the compression suffix at the end of the
\* whole name, before the .aes suffix is taken off
transformsFromNameWholeName(vs, name) ==
  LET aes == vs.alg.AES /\ HasSuffix(name, ExtAes)
      crypter == IF aes THEN "aes" ELSE Nil
  IN  IF vs.alg.Gzip /\ HasSuffix(name, ExtGz)
        THEN [compressor |-> "gzip", decompressor |-> "gzip", crypter |-> crypter]
        ELSE IF vs.alg.Zstd /\ HasSuffix(name, ExtZst)
          THEN [compressor |-> "zstd", decompressor |-> "zstd", crypter |-> crypter]
          ELSE [compressor |-> Nil, decompressor |-> Nil, crypter |-> crypter]

transformsFromName(vs, name) ==
  LET aes == vs.alg.AES /\ HasSuffix(name, ExtAes)
      rest == IF aes THEN TrimSuffix(name, ExtAes) ELSE name
      crypter == IF aes THEN "aes" ELSE Nil
  IN  IF vs.alg.Gzip /\ HasSuffix(rest, ExtGz)
        THEN [compressor |-> "gzip", decompressor |-> "gzip", crypter |-> crypter]
        ELSE IF vs.alg.Zstd /\ HasSuffix(rest, ExtZst)
          THEN [compressor |-> "zstd", decompressor |-> "zstd", crypter |-> crypter]
          ELSE [compressor |-> Nil, decompressor |-> Nil, crypter |-> crypter]

\* encodePath that takes the first suffix of the lookup order
encodePathFirstExt(vs, base) == ToSlash(base \o supportedExts(vs)[1])

encodePath(vs, base) == ToSlash(base \o vs.writeExt)

RECURSIVE decodeFrom(_, _, _)
decodeFrom(exts, i, encoded) ==
  IF i > Len(exts) THEN encoded
  ELSE IF exts[i] # ExtPlain /\ HasSuffix(encoded, exts[i])
    THEN TrimSuffix(encoded, exts[i])
    ELSE decodeFrom(exts, i + 1, encoded)

\* decodePath that strips the instance's own write suffix only
decodePathWriteExtOnly(vs, encoded) == TrimSuffix(ToSlash(encoded), vs.writeExt)

\* decodePath that tries the suffixes from the last of the list to the first
decodePathLastFirst(vs, encoded) ==
  LET exts == supportedExts(vs)
  IN  decodeFrom([i \in 1..Len(exts) |-> exts[Len(exts) + 1 - i]], 1,
                 ToSlash(encoded))

decodePath(vs, encoded) == decodeFrom(supportedExts(vs), 1, ToSlash(encoded))

----------------------------------------------------------------------------
(* Byte streams and their transforms (streamcrypt's pipe package) *)

Bytes(d) == [payload |-> d, layers |-> <<>>]

\* no stream: the nil io.ReadCloser
NoStream == [payload |-> Nil, layers |-> <<>>]

\* what a reader yields when a transform does not find its own format
Corrupt == [payload |-> "corrupt", layers |-> <<>>]

Wrap(b, layer) ==
  IF layer = Nil THEN b ELSE [b EXCEPT !.layers = Append(@, layer)]

Unwrap(b, layer) ==
  IF layer = Nil THEN b
  ELSE IF b.layers # <<>> /\ b.layers[Len(b.layers)] = layer
    THEN [b EXCEPT !.layers = SubSeq(@, 1, Len(@) - 1)]
    ELSE Corrupt

\* compress, then encrypt; each step skipped when its capability is nil
CompressAndEncryptOptional(r, compressor, crypter) ==
  Wrap(Wrap(r, compressor), crypter)

\* decrypt, then decompress
DecryptAndDecompressOptional(rc, crypter, decompressor) ==
  Unwrap(Unwrap(rc, crypter), decompressor)

----------------------------------------------------------------------------
(* Backends: a map from key to bytes *)

NoFiles == [k \in {} |-> Corrupt]

MapPut(m, key, b) == [k \in DOMAIN m \cup {key} |-> IF k = key THEN b ELSE m[k]]

MapDelete(m, key) == [k \in DOMAIN m \ {key} |-> m[k]]

InMemoryPut(m, path, r) == [files |-> MapPut(m, path, r), err |-> Nil]

InMemoryGet(m, path) ==
  IF path \notin DOMAIN m THEN [rc |-> NoStream, err |-> ErrFileNotFound]
  ELSE [rc |-> m[path], err |-> Nil]

InMemoryDelete(m, path) ==
  IF path \notin DOMAIN m THEN [files |-> m, err |-> ErrFileNotFound]
  ELSE [files |-> MapDelete(m, path), err |-> Nil]

InMemoryExists(m, path) == [ok |-> path \in DOMAIN m, err |-> Nil]

\* a rename that copies the entry and leaves the old key in place
InMemoryRenameCopy(m, oldRemotePath, newRemotePath) ==
  IF oldRemotePath = newRemotePath THEN [files |-> m, err |-> Nil]
  ELSE IF oldRemotePath \notin DOMAIN m THEN [files |-> m, err |-> ErrFileNotFound]
  ELSE [files |-> MapPut(m, newRemotePath, m[oldRemotePath]), err |-> Nil]

InMemoryRename(m, oldRemotePath, newRemotePath) ==
  IF oldRemotePath = newRemotePath THEN [files |-> m, err |-> Nil]
  ELSE IF oldRemotePath \notin DOMAIN m THEN [files |-> m, err |-> ErrFileNotFound]
  ELSE [files |-> MapDelete(MapPut(m, newRemotePath, m[oldRemotePath]), oldRemotePath),
        err |-> Nil]

\* ctx.Err() of a cancelled context
ErrCanceled == "context canceled"

\* the context of a call: live throughout, done when the call starts, or
\* done while the call waits for the lock
Contexts == {"live", "done", "done while waiting"}

\* Rename of the in-memory backend with its context: the names are compared
\* first, then ctx.Done() is polled before the lock and again under it
InMemoryRenameCtx(m, oldRemotePath, newRemotePath, ctx) ==
  IF oldRemotePath = newRemotePath THEN [files |-> m, err |-> Nil]
  ELSE IF ctx = "done" THEN [files |-> m, err |-> ErrCanceled]
  ELSE IF ctx = "done while waiting" THEN [files |-> m, err |-> ErrCanceled]
  ELSE InMemoryRename(m, oldRemotePath, newRemotePath)

localPut(m, remotePath, r) == [files |-> MapPut(m, remotePath, r), err |-> Nil]

localGet(m, remotePath) ==
  IF remotePath \notin DOMAIN m THEN [rc |-> NoStream, err |-> ErrENOENT]
  ELSE [rc |-> m[remotePath], err |-> Nil]

localDelete(m, remotePath) ==
  IF remotePath \notin DOMAIN m THEN [files |-> m, err |-> ErrENOENT]
  ELSE [files |-> MapDelete(m, remotePath), err |-> Nil]

localExists(m, remotePath) == [ok |-> remotePath \in DOMAIN m, err |-> Nil]

localRename(m, oldRemotePath, newRemotePath) ==
  IF oldRemotePath = newRemotePath THEN [files |-> m, err |-> Nil]
  ELSE IF oldRemotePath \notin DOMAIN m THEN [files |-> m, err |-> ErrENOENT]
  ELSE [files |-> MapDelete(MapPut(m, newRemotePath, m[oldRemotePath]), oldRemotePath),
        err |-> Nil]

\* the keys under a directory; the order of a listing is not modelled
InMemoryList(m, path) ==
  LET prefix == TrimSuffix(path, Slash) \o Slash
  IN  [keys |-> {key \in DOMAIN m : HasPrefix(key, prefix)}, err |-> Nil]

\* path.Dir of a key: what precedes its last separator
RECURSIVE DirOf(_)
DirOf(key) ==
  IF key = <<>> THEN <<>>
  ELSE IF key[Len(key)] = "/" THEN SubSeq(key, 1, Len(key) - 1)
  ELSE DirOf(SubSeq(key, 1, Len(key) - 1))

\* filepath.WalkDir from the cleaned path: the file itself, the files under
\* the directory, or an error when the path does not exist
localList(m, d, remotePath) ==
  LET root == TrimSuffix(remotePath, Slash)
  IN  IF root \in DOMAIN m THEN [keys |-> {root}, err |-> Nil]
      ELSE IF root = <<>> \/ root \in d
        THEN [keys |-> {key \in DOMAIN m : HasPrefix(key, root \o Slash)},
              err |-> Nil]
      ELSE [keys |-> {}, err |-> ErrENOENT]

\* the directories of the local backend after a call: os.MkdirAll creates
\* the directory of every file written or renamed, and nothing removes one
localDirs(d, m) == d \cup {DirOf(key) : key \in DOMAIN m}

\* times a backend reports: time.Now() of the in-memory backend, the
\* modification time the file system recorded for the local one
Times == {1, 2}

\* stat.Size of stored bytes: the payload and one header per transform
SizeOf(b) == 1 + Len(b.layers)

\* FileInfo{Path, ModTime} with Size left at its zero value
InMemoryListInfo(m, path, t) ==
  LET l == InMemoryList(m, path)
  IN  [infos |-> [key \in l.keys |-> [Path |-> key, ModTime |-> t, Size |-> 0]],
       err |-> l.err]

\* the walk of localList, each file with its stat
localListInfo(m, d, remotePath, t) ==
  LET l == localList(m, d, remotePath)
  IN  [infos |-> [key \in l.keys |->
                    [Path |-> key, ModTime |-> t, Size |-> SizeOf(m[key])]],
       err |-> l.err]

\* The S3 backend (s3.go).  A request of the client can fail: faults names,
\* for some keys, the one request on that key that the service refuses.
FaultyKeys == {Dir \o <<"a">> \o ExtGzAes, Dir \o <<"a">> \o ExtGz,
               Dir \o <<"b">> \o ExtGz}

NoFaults == [key \in FaultyKeys |-> "none"]

Fails(f, request, key) == key \in DOMAIN f /\ f[key] = request

\* the error the client returns for a refused request on key
RequestError(key) ==
  IF key = Dir \o <<"a">> \o ExtGzAes THEN "api error AccessDenied"
  ELSE IF key = Dir \o <<"a">> \o ExtGz THEN "api error SlowDown"
  ELSE "api error InternalError"

\* fmt.Errorf("copy object %q -> %q: %w", ...)
CopyError(err) ==
  CASE err = "api error AccessDenied" -> "copy object: api error AccessDenied"
    [] err = "api error SlowDown" -> "copy object: api error SlowDown"
    [] err = "api error InternalError" -> "copy object: api error InternalError"
    [] err = "api error NoSuchKey" -> "copy object: api error NoSuchKey"

\* fmt.Errorf("delete source after copy %q: %w", ...)
DeleteSourceError(err) ==
  CASE err = "api error AccessDenied" -> "delete source after copy: api error AccessDenied"
    [] err = "api error SlowDown" -> "delete source after copy: api error SlowDown"
    [] err = "api error InternalError" ->
         "delete source after copy: api error InternalError"

ErrNoSuchKey == "api error NoSuchKey"

s3Put(m, remotePath, r) == [files |-> MapPut(m, remotePath, r), err |-> Nil]

\* fmt.Errorf("failed to read object from S3: %w", err)
ReadError(err) ==
  CASE err = "api error AccessDenied" ->
         "failed to read object from S3: api error AccessDenied"
    [] err = "api error SlowDown" -> "failed to read object from S3: api error SlowDown"
    [] err = "api error InternalError" ->
         "failed to read object from S3: api error InternalError"
    [] err = "api error NoSuchKey" -> "failed to read object from S3: api error NoSuchKey"

s3Get(m, remotePath, f) ==
  IF Fails(f, "GetObject", remotePath)
    THEN [rc |-> NoStream, err |-> ReadError(RequestError(remotePath))]
  ELSE IF remotePath \notin DOMAIN m
    THEN [rc |-> NoStream, err |-> ReadError(ErrNoSuchKey)]
    ELSE [rc |-> m[remotePath], err |-> Nil]

\* ListObjectsV2 with the joined path as key prefix
s3List(m, remotePath) ==
  [keys |-> {key \in DOMAIN m : HasPrefix(key, TrimSuffix(remotePath, Slash))},
   err |-> Nil]

s3ListInfo(m, remotePath, t) ==
  LET l == s3List(m, remotePath)
  IN  [infos |-> [key \in l.keys |->
                    [Path |-> key, ModTime |-> t, Size |-> SizeOf(m[key])]],
       err |-> l.err]

\* DeleteObject: no error for a key that holds no object
s3Delete(m, remotePath, f) ==
  IF Fails(f, "DeleteObject", remotePath)
    THEN [files |-> m, err |-> RequestError(remotePath)]
    ELSE [files |-> [key \in DOMAIN m \ {remotePath} |-> m[key]], err |-> Nil]

\* HeadObject: NotFound is "no such object", any other failure an error
s3Exists(m, remotePath, f) ==
  IF Fails(f, "HeadObject", remotePath)
    THEN [ok |-> FALSE, err |-> RequestError(remotePath)]
    ELSE [ok |-> remotePath \in DOMAIN m, err |-> Nil]

\* CopyObject, then DeleteObject of the source
s3Rename(m, oldRemotePath, newRemotePath, f) ==
  IF oldRemotePath = newRemotePath THEN [files |-> m, err |-> Nil]
  ELSE IF Fails(f, "CopyObject", oldRemotePath)
    THEN [files |-> m, err |-> CopyError(RequestError(oldRemotePath))]
  ELSE IF oldRemotePath \notin DOMAIN m
    THEN [files |-> m, err |-> CopyError(ErrNoSuchKey)]
  ELSE LET copied == MapPut(m, newRemotePath, m[oldRemotePath])
       IN  IF Fails(f, "DeleteObject", oldRemotePath)
             THEN [files |-> copied,
                   err |-> DeleteSourceError(RequestError(oldRemotePath))]
             ELSE [files |-> MapDelete(copied, oldRemotePath), err |-> Nil]

BackendListInfo(k, m, d, path, t) ==
  IF k = "mem" THEN InMemoryListInfo(m, path, t)
  ELSE IF k = "local" THEN localListInfo(m, d, path, t)
  ELSE s3ListInfo(m, path, t)

\* the Storage interface: the call goes to the backend the instance wraps
BackendList(k, m, d, path) ==
  IF k = "mem" THEN InMemoryList(m, path)
  ELSE IF k = "local" THEN localList(m, d, path)
  ELSE s3List(m, path)

\* DeleteAll of the in-memory backend: the key itself and the keys under it
InMemoryDeleteAll(m, path) ==
  LET prefix == TrimSuffix(path, Slash) \o Slash
  IN  [files |-> [key \in {x \in DOMAIN m : ~(HasPrefix(x, prefix) \/ x = path)}
                    |-> m[key]],
       err |-> Nil]

RECURSIVE InMemoryDeleteAllBulk(_, _)
InMemoryDeleteAllBulk(m, paths) ==
  IF paths = <<>> THEN [files |-> m, err |-> Nil]
  ELSE InMemoryDeleteAllBulk(InMemoryDeleteAll(m, Head(paths)).files, Tail(paths))

\* os.RemoveAll of each cleaned path: the file, or the directory with all
\* that is under it; a path that does not exist is no error
RECURSIVE localDeleteAllBulk(_, _, _)
localDeleteAllBulk(m, d, paths) ==
  IF paths = <<>> THEN [files |-> m, dirs |-> d, err |-> Nil]
  ELSE LET fullPath == TrimSuffix(Head(paths), Slash)
           gone(x) == x = fullPath \/ HasPrefix(x, fullPath \o Slash)
       IN  localDeleteAllBulk([key \in {x \in DOMAIN m : ~gone(x)} |-> m[key]],
                              {x \in d : ~gone(x)}, Tail(paths))

\* deleteAllVersionsBulk: every key that ListObjectVersions returns for the
\* joined path of a list entry given as Prefix, deleted by DeleteObjects
s3DeleteAllBulk(m, paths) ==
  LET objectsToDelete ==
        {key \in DOMAIN m :
           \E i \in DOMAIN paths : HasPrefix(key, TrimSuffix(paths[i], Slash))}
  IN  [files |-> [key \in DOMAIN m \ objectsToDelete |-> m[key]], err |-> Nil]

BackendDeleteAllBulk(k, m, d, paths) ==
  IF k = "mem"
    THEN LET r == InMemoryDeleteAllBulk(m, paths)
         IN  [files |-> r.files, dirs |-> d, err |-> r.err]
  ELSE IF k = "local" THEN localDeleteAllBulk(m, d, paths)
  ELSE LET r == s3DeleteAllBulk(m, paths)
       IN  [files |-> r.files, dirs |-> d, err |-> r.err]

BackendDirs(k, d, m) == IF k = "local" THEN localDirs(d, m) ELSE d

BackendPut(k, m, path, r) ==
  IF k = "mem" THEN InMemoryPut(m, path, r)
  ELSE IF k = "local" THEN localPut(m, path, r)
  ELSE s3Put(m, path, r)

BackendGet(k, m, path) ==
  IF k = "mem" THEN InMemoryGet(m, path)
  ELSE IF k = "local" THEN localGet(m, path)
  ELSE s3Get(m, path, faults)

\* a delete that empties the directory of the key
BackendDeleteDir(k, m, path) ==
  [files |-> [key \in {x \in DOMAIN m : DirOf(x) # DirOf(path)} |-> m[key]],
   err |-> Nil]

BackendDelete(k, m, path) ==
  IF k = "mem" THEN InMemoryDelete(m, path)
  ELSE IF k = "local" THEN localDelete(m, path)
  ELSE s3Delete(m, path, faults)

BackendExists(k, m, path) ==
  IF k = "mem" THEN InMemoryExists(m, path)
  ELSE IF k = "local" THEN localExists(m, path)
  ELSE s3Exists(m, path, faults)

\* a rename that leaves both names alone when the new one is taken
BackendRenameNoOverwrite(k, m, old, new) ==
  IF new \in DOMAIN m THEN [files |-> m, err |-> Nil]
  ELSE IF k = "mem" THEN InMemoryRename(m, old, new)
  ELSE IF k = "local" THEN localRename(m, old, new)
  ELSE s3Rename(m, old, new, faults)

BackendRename(k, m, old, new) ==
  IF k = "mem" THEN InMemoryRename(m, old, new)
  ELSE IF k = "local" THEN localRename(m, old, new)
  ELSE s3Rename(m, old, new, faults)

----------------------------------------------------------------------------
(* VariadicStorage handlers, as functions of the backend's content *)
(* Each result carries the backend's content afterwards, the returned      *)
(* values, and log: the backend calls the handler issued, in order.        *)

RECURSIVE findFrom(_, _, _, _, _, _)
findFrom(exts, i, base, log, k, m) ==
  IF i > Len(exts) THEN [name |-> <<>>, err |-> ErrNotExist, log |-> log]
  ELSE LET candidate == base \o exts[i]
           r == BackendExists(k, m, candidate)
           l == Append(log, <<"Exists", candidate>>)
       IN  IF r.err # Nil THEN [name |-> <<>>, err |-> r.err, log |-> l]
           ELSE IF r.ok THEN [name |-> candidate, err |-> Nil, log |-> l]
           ELSE findFrom(exts, i + 1, base, l, k, m)

\* the search that takes a failed probe for "not there" and goes on
RECURSIVE findFromLenient(_, _, _, _, _, _)
findFromLenient(exts, i, base, log, k, m) ==
  IF i > Len(exts) THEN [name |-> <<>>, err |-> ErrNotExist, log |-> log]
  ELSE LET candidate == base \o exts[i]
           r == BackendExists(k, m, candidate)
           l == Append(log, <<"Exists", candidate>>)
       IN  IF r.err = Nil /\ r.ok THEN [name |-> candidate, err |-> Nil, log |-> l]
           ELSE findFromLenient(exts, i + 1, base, l, k, m)

findExistingNameLenient(vs, base, k, m) ==
  findFromLenient(supportedExts(vs), 1, ToSlash(base), <<>>, k, m)

\* findExistingName that probes the name as given before any suffix
findExistingNamePlainFirst(vs, base, k, m) ==
  findFrom(<<ExtPlain>> \o supportedExts(vs), 1, ToSlash(base), <<>>, k, m)

\* findExistingName that hands the base name back when no candidate exists
findExistingNameNoError(vs, base, k, m) ==
  LET f == findFrom(supportedExts(vs), 1, ToSlash(base), <<>>, k, m)
  IN  IF f.err = ErrNotExist
        THEN [name |-> ToSlash(base), err |-> Nil, log |-> f.log]
        ELSE f

findExistingName(vs, base, k, m) ==
  findFrom(supportedExts(vs), 1, ToSlash(base), <<>>, k, m)

\* Put that stores the stream as given under the encoded name
VsPutUntransformed(vs, path, r, k, m) ==
  LET stored == encodePath(vs, ToSlash(path))
      p == BackendPut(k, m, stored, r)
  IN  [files |-> p.files, err |-> p.err, log |-> <<<<"Put", stored>>>>]

VsPut(vs, path, r, k, m) ==
  LET stored == encodePath(vs, ToSlash(path))
      t == transformsFromName(vs, stored)
      transformed == CompressAndEncryptOptional(r, t.compressor, t.crypter)
      p == BackendPut(k, m, stored, transformed)
  IN  [files |-> p.files, err |-> p.err, log |-> <<<<"Put", stored>>>>]

\* the first extension of exts, from position i on, that path ends with; 0 if none
RECURSIVE explicitExt(_, _, _)
explicitExt(exts, i, path) ==
  IF i > Len(exts) THEN 0
  ELSE IF exts[i] # ExtPlain /\ HasSuffix(path, exts[i]) THEN i
  ELSE explicitExt(exts, i + 1, path)

\* fetch of one stored name and decoding by its suffix
fetchDecoded(vs, stored, log, k, m) ==
  LET g == BackendGet(k, m, stored)
      t == transformsFromName(vs, stored)
      l == Append(log, <<"Get", stored>>)
  IN  IF g.err # Nil THEN [rc |-> NoStream, err |-> g.err, log |-> l]
      ELSE [rc |-> DecryptAndDecompressOptional(g.rc, t.crypter, t.decompressor),
            err |-> Nil, log |-> l]

\* Get that looks under the instance's own write suffix only
VsGetWriteExtOnly(vs, path, k, m) ==
  fetchDecoded(vs, encodePath(vs, ToSlash(path)), <<>>, k, m)

\* Get that searches the variants of the decoded name, whatever suffix is given
VsGetSearchOnly(vs, path, k, m) ==
  LET f == findExistingName(vs, decodePath(vs, ToSlash(path)), k, m)
  IN  IF f.err # Nil THEN [rc |-> NoStream, err |-> f.err, log |-> f.log]
      ELSE fetchDecoded(vs, f.name, f.log, k, m)

\* Get that asks for the object a second time when the fetch fails
VsGetRetry(vs, path, k, m) ==
  LET p == ToSlash(path)
      f == findExistingName(vs, p, k, m)
      first == fetchDecoded(vs, f.name, f.log, k, m)
  IN  IF explicitExt(supportedExts(vs), 1, p) # 0
        THEN fetchDecoded(vs, p, <<>>, k, m)
      ELSE IF f.err # Nil THEN [rc |-> NoStream, err |-> f.err, log |-> f.log]
      ELSE IF first.err # Nil THEN fetchDecoded(vs, f.name, first.log, k, m)
      ELSE first

VsGet(vs, path, k, m) ==
  LET p == ToSlash(path)
  IN  IF explicitExt(supportedExts(vs), 1, p) # 0
        THEN fetchDecoded(vs, p, <<>>, k, m)
        ELSE LET f == findExistingName(vs, p, k, m)
             IN  IF f.err # Nil THEN [rc |-> NoStream, err |-> f.err, log |-> f.log]
                 ELSE fetchDecoded(vs, f.name, f.log, k, m)

\* List that keeps one entry for each decoded name
VsListDedup(vs, prefix, k, m, d) ==
  LET l == BackendList(k, m, d, ToSlash(prefix))
      kept == {key \in l.keys :
                 key = CHOOSE other \in l.keys :
                         decodePath(vs, other) = decodePath(vs, key)}
  IN  IF l.err # Nil THEN [entries |-> [key \in {} |-> <<>>], err |-> l.err]
      ELSE [entries |-> [key \in kept |-> decodePath(vs, key)], err |-> Nil]

\* one entry per listed backend object: its decoded name
VsList(vs, prefix, k, m, d) ==
  LET l == BackendList(k, m, d, ToSlash(prefix))
  IN  IF l.err # Nil THEN [entries |-> [key \in {} |-> <<>>], err |-> l.err]
      ELSE [entries |-> [key \in l.keys |-> decodePath(vs, key)], err |-> Nil]

\* Exists that probes the name under the instance's own write suffix only
VsListInfo(vs, prefix, k, m, d, t) ==
  LET l == BackendListInfo(k, m, d, ToSlash(prefix), t)
  IN  IF l.err # Nil THEN [infos |-> [key \in {} |-> <<>>], err |-> l.err]
      ELSE [infos |-> [key \in DOMAIN l.infos |->
                         [l.infos[key] EXCEPT !.Path = decodePath(vs, @)]],
            err |-> Nil]

\* Exists that probes the name under the instance's own write suffix only
VsExistsWriteExtOnly(vs, path, k, m) ==
  LET r == BackendExists(k, m, encodePath(vs, ToSlash(path)))
  IN  [ok |-> r.ok, err |-> r.err, log |-> <<<<"Exists", encodePath(vs, ToSlash(path))>>>>]

\* Exists that asks for the given name alone
VsExistsGivenName(vs, path, k, m) ==
  LET e == BackendExists(k, m, ToSlash(path))
  IN  [ok |-> e.ok, err |-> e.err, log |-> <<<<"Exists", ToSlash(path)>>>>]

VsExists(vs, path, k, m) ==
  LET f == findExistingName(vs, ToSlash(path), k, m)
  IN  IF f.err # Nil
        THEN IF IsErrNotExist(f.err) THEN [ok |-> FALSE, err |-> Nil, log |-> f.log]
             ELSE [ok |-> FALSE, err |-> f.err, log |-> f.log]
        ELSE [ok |-> TRUE, err |-> Nil, log |-> f.log]

RECURSIVE deleteFrom(_, _, _, _, _, _, _)
deleteFrom(exts, i, path, lastErr, log, k, m) ==
  IF i > Len(exts) THEN [files |-> m, err |-> lastErr, log |-> log]
  ELSE LET candidate == path \o exts[i]
           d == BackendDelete(k, m, candidate)
       IN  deleteFrom(exts, i + 1, path,
                      IF d.err # Nil /\ ~IsErrNotExist(d.err) THEN d.err ELSE lastErr,
                      Append(log, <<"Delete", candidate>>), k, d.files)

\* Delete of the variant under the instance's own write suffix only
VsDeleteWriteExtOnly(vs, path, k, m) ==
  LET candidate == encodePath(vs, ToSlash(path))
      d == BackendDelete(k, m, candidate)
  IN  [files |-> d.files,
       err |-> IF d.err # Nil /\ ~IsErrNotExist(d.err) THEN d.err ELSE Nil,
       log |-> <<<<"Delete", candidate>>>>]

\* Delete that keeps the error of the first candidate that failed
RECURSIVE deleteKeepFirst(_, _, _, _, _, _, _)
deleteKeepFirst(exts, i, path, firstErr, log, k, m) ==
  IF i > Len(exts) THEN [files |-> m, err |-> firstErr, log |-> log]
  ELSE LET candidate == path \o exts[i]
           d == BackendDelete(k, m, candidate)
       IN  deleteKeepFirst(exts, i + 1, path,
                           IF d.err # Nil /\ ~IsErrNotExist(d.err) /\ firstErr = Nil
                             THEN d.err ELSE firstErr,
                           Append(log, <<"Delete", candidate>>), k, d.files)

VsDeleteFirstError(vs, path, k, m) ==
  deleteKeepFirst(supportedExts(vs), 1, ToSlash(path), Nil, <<>>, k, m)

VsDelete(vs, path, k, m) ==
  deleteFrom(supportedExts(vs), 1, ToSlash(path), Nil, <<>>, k, m)

RECURSIVE bulkFrom(_, _, _, _, _, _, _)
bulkFrom(vs, paths, i, lastErr, log, k, m) ==
  IF i > Len(paths) THEN [files |-> m, err |-> lastErr, log |-> log]
  ELSE LET d == VsDelete(vs, paths[i], k, m)
       IN  bulkFrom(vs, paths, i + 1, IF d.err # Nil THEN d.err ELSE lastErr,
                    log \o d.log, k, d.files)

VsDeleteAllBulk(vs, paths, k, m) == bulkFrom(vs, paths, 1, Nil, <<>>, k, m)

\* the loop of Rename, left at the first candidate whose probe or rename fails
RECURSIVE renameFromAbort(_, _, _, _, _, _, _, _)
renameFromAbort(exts, i, oldBase, newBase, lastErr, log, k, m) ==
  IF i > Len(exts) THEN [files |-> m, err |-> lastErr, log |-> log]
  ELSE LET oldPhys == oldBase \o exts[i]
           newPhys == newBase \o exts[i]
           e == BackendExists(k, m, oldPhys)
           l == Append(log, <<"Exists", oldPhys>>)
       IN  IF e.err # Nil THEN [files |-> m, err |-> e.err, log |-> l]
           ELSE IF ~e.ok
             THEN renameFromAbort(exts, i + 1, oldBase, newBase, lastErr, l, k, m)
           ELSE LET r == BackendRename(k, m, oldPhys, newPhys)
                    lr == Append(l, <<"Rename", oldPhys, newPhys>>)
                IN  IF r.err # Nil
                      THEN [files |-> r.files, err |-> r.err, log |-> lr]
                      ELSE renameFromAbort(exts, i + 1, oldBase, newBase,
                                           lastErr, lr, k, r.files)

RECURSIVE renameFrom(_, _, _, _, _, _, _, _)
renameFrom(exts, i, oldBase, newBase, lastErr, log, k, m) ==
  IF i > Len(exts) THEN [files |-> m, err |-> lastErr, log |-> log]
  ELSE LET oldPhys == oldBase \o exts[i]
           newPhys == newBase \o exts[i]
           e == BackendExists(k, m, oldPhys)
           l == Append(log, <<"Exists", oldPhys>>)
       IN  IF e.err # Nil
             THEN renameFrom(exts, i + 1, oldBase, newBase, e.err, l, k, m)
           ELSE IF ~e.ok
             THEN renameFrom(exts, i + 1, oldBase, newBase, lastErr, l, k, m)
           ELSE LET r == BackendRename(k, m, oldPhys, newPhys)
                IN  renameFrom(exts, i + 1, oldBase, newBase,
                               IF r.err # Nil THEN r.err ELSE lastErr,
                               Append(l, <<"Rename", oldPhys, newPhys>>), k, r.files)

\* Rename that moves only the variant a lookup of the old name resolves to
VsRenameFirstOnly(vs, oldRemotePath, newRemotePath, k, m) ==
  LET oldBase == decodePath(vs, ToSlash(oldRemotePath))
      newBase == decodePath(vs, ToSlash(newRemotePath))
      f == findExistingName(vs, oldBase, k, m)
      ext == SubSeq(f.name, Len(oldBase) + 1, Len(f.name))
      r == BackendRename(k, m, f.name, newBase \o ext)
  IN  IF oldBase = newBase THEN [files |-> m, err |-> Nil, log |-> <<>>]
      ELSE IF f.err # Nil THEN [files |-> m, err |-> Nil, log |-> f.log]
      ELSE [files |-> r.files, err |-> r.err,
            log |-> Append(f.log, <<"Rename", f.name, newBase \o ext>>)]

\* Rename without the comparison of the two decoded names
VsRenameNoShortcut(vs, oldRemotePath, newRemotePath, k, m) ==
  renameFrom(supportedExts(vs), 1, decodePath(vs, ToSlash(oldRemotePath)),
             decodePath(vs, ToSlash(newRemotePath)), Nil, <<>>, k, m)

\* Rename that puts the backend back as it was when a variant failed
VsRenameRollback(vs, oldRemotePath, newRemotePath, k, m) ==
  LET oldBase == decodePath(vs, ToSlash(oldRemotePath))
      newBase == decodePath(vs, ToSlash(newRemotePath))
      r == renameFrom(supportedExts(vs), 1, oldBase, newBase, Nil, <<>>, k, m)
  IN  IF oldBase = newBase THEN [files |-> m, err |-> Nil, log |-> <<>>]
      ELSE IF r.err # Nil THEN [files |-> m, err |-> r.err, log |-> r.log]
      ELSE r

VsRename(vs, oldRemotePath, newRemotePath, k, m) ==
  LET oldBase == decodePath(vs, ToSlash(oldRemotePath))
      newBase == decodePath(vs, ToSlash(newRemotePath))
  IN  IF oldBase = newBase THEN [files |-> m, err |-> Nil, log |-> <<>>]
      ELSE renameFrom(supportedExts(vs), 1, oldBase, newBase, Nil, <<>>, k, m)

----------------------------------------------------------------------------
(* TransformingStorage (modifier.go): one fixed compressor/decompressor   *)
(* pair and one crypter, each of them nil or configured                   *)

NilTransforming == [Compressor |-> Nil, Decompressor |-> Nil, Crypter |-> Nil]

\* the configurations: a codec's compressor with its decompressor, or neither
Transformings ==
  {[Compressor |-> c, Decompressor |-> c, Crypter |-> y] :
     c \in {Nil, "gzip", "zstd"}, y \in {Nil, "aes"}}

\* FileExtension() of a compressor or crypter
FileExtension(c) ==
  CASE c = "gzip" -> ExtGz
    [] c = "zstd" -> ExtZst
    [] c = "aes" -> ExtAes

\* getFileExt with the crypter's extension before the compressor's
getFileExtCrypterFirst(ts) ==
  (IF ts.Crypter # Nil THEN FileExtension(ts.Crypter) ELSE <<>>)
  \o (IF ts.Compressor # Nil THEN FileExtension(ts.Compressor) ELSE <<>>)

getFileExt(ts) ==
  (IF ts.Compressor # Nil THEN FileExtension(ts.Compressor) ELSE <<>>)
  \o (IF ts.Crypter # Nil THEN FileExtension(ts.Crypter) ELSE <<>>)

tsEncodePath(ts, path) == ToSlash(path \o getFileExt(ts))

tsDecodePath(ts, path) == TrimSuffix(path, getFileExt(ts))

wrapWrite(ts, in) == CompressAndEncryptOptional(in, ts.Compressor, ts.Crypter)

wrapRead(ts, in) == DecryptAndDecompressOptional(in, ts.Crypter, ts.Decompressor)

TsPut(ts, path, r, k, m) ==
  LET transformed == wrapWrite(ts, r)
      p == BackendPut(k, m, tsEncodePath(ts, path), transformed)
  IN  [files |-> p.files, err |-> p.err,
       log |-> <<<<"Put", tsEncodePath(ts, path)>>>>]

TsGet(ts, path, k, m) ==
  LET g == BackendGet(k, m, tsEncodePath(ts, path))
      l == <<<<"Get", tsEncodePath(ts, path)>>>>
  IN  IF g.err # Nil THEN [rc |-> NoStream, err |-> g.err, log |-> l]
      ELSE [rc |-> wrapRead(ts, g.rc), err |-> Nil, log |-> l]

TsDelete(ts, path, k, m) ==
  LET r == BackendDelete(k, m, tsEncodePath(ts, path))
  IN  [files |-> r.files, err |-> r.err,
       log |-> <<<<"Delete", tsEncodePath(ts, path)>>>>]

\* paths[i] = ts.encodePath(paths[i]) writes into the array of the caller's
\* slice: slice is what the caller holds after the call
TsDeleteAllBulk(ts, paths, k, m, d) ==
  LET encoded == [i \in DOMAIN paths |-> tsEncodePath(ts, paths[i])]
      r == BackendDeleteAllBulk(k, m, d, encoded)
  IN  [files |-> r.files, dirs |-> r.dirs, err |-> r.err, slice |-> encoded,
       log |-> <<<<"DeleteAllBulk", encoded>>>>]

TsExists(ts, path, k, m) ==
  LET r == BackendExists(k, m, tsEncodePath(ts, path))
  IN  [ok |-> r.ok, err |-> r.err, log |-> <<<<"Exists", tsEncodePath(ts, path)>>>>]

----------------------------------------------------------------------------
(* The state machine: one synchronous call at a time on a shared backend *)

LogicalPaths == {Dir \o <<b>> : b \in Bases}

\* a logical path, or a path that carries one suffix combination
Paths == {p \o e : p \in LogicalPaths, e \in AllExts}

RECURSIVE SeqsUpTo(_, _)
SeqsUpTo(S, n) ==
  IF n = 0 THEN {<<>>}
  ELSE LET shorter == SeqsUpTo(S, n - 1)
       IN  shorter \cup {Append(q, x) : q \in shorter, x \in S}

\* the path lists given to DeleteAllBulk: distinct logical paths
BulkLists ==
  {q \in SeqsUpTo(LogicalPaths, MaxBulk) :
     \A i \in DOMAIN q, j \in DOMAIN q : q[i] = q[j] => i = j}

\* Get, Exists, Delete and Rename never read writeExt: the calls of the model
\* go through the plain-writing instance of each Algorithms set
Readers == {vs \in Instances : vs.writeExt = ExtPlain}

\* one writer per write suffix: the instances with every algorithm configured
Writers == {vs \in Instances : vs.alg.Gzip /\ vs.alg.Zstd /\ vs.alg.AES}

Range(f) == {f[i] : i \in DOMAIN f}

\* a logical path, or one with a suffix the instance recognizes
PathArgs(vs) == {p \o e : p \in LogicalPaths, e \in Range(supportedExts(vs))}

\* Rename's arguments: two logical names, or the old name with a suffix the
\* instance recognizes and the new name with the suffix that follows it in
\* supportedExts (the first after the last): every suffix occurs on either side
RenameArgs(vs) ==
  LET exts == supportedExts(vs)
  IN  {<<o, n>> : o \in LogicalPaths, n \in LogicalPaths}
        \cup {<<o \o exts[i], n \o exts[(i % Len(exts)) + 1]>> :
                 o \in LogicalPaths, n \in LogicalPaths, i \in DOMAIN exts}

\* Calls in progress at the same time on one backend: a Get between two of
\* its backend calls, a Delete between two of its, a Rename between two of its
NoGet == [pc |-> "idle", vs |-> NilStorage, path |-> <<>>, i |-> 0,
          name |-> <<>>, log |-> <<>>, rc |-> NoStream, err |-> Nil]

NoDelete == [pc |-> "idle", vs |-> NilStorage, path |-> <<>>, i |-> 0,
             lastErr |-> Nil]

NoRename == [pc |-> "idle", vs |-> NilStorage, oldBase |-> <<>>,
             newBase |-> <<>>, i |-> 0, lastErr |-> Nil, start |-> NoFiles]

NoRace == [get |-> NoGet, del |-> NoDelete, ren |-> NoRename]

NoCall == [op |-> "none", vs |-> NilStorage, path |-> <<>>, to |-> <<>>,
           paths |-> <<>>, data |-> Nil, ok |-> FALSE, rc |-> NoStream,
           err |-> Nil, log |-> <<>>, entries |-> [key \in {} |-> <<>>],
           infos |-> [key \in {} |-> <<>>],
           alg |-> NilStorage.alg, writeExt |-> ExtPlain,
           exts |-> <<>>, name |-> <<>>, ts |-> NilTransforming,
           slice |-> <<>>, ctx |-> "live",
           transforms |-> [compressor |-> Nil, decompressor |-> Nil,
                           crypter |-> Nil]]

Idle == call.op = "none"

Init ==
  /\ kind \in {"mem", "local"}
  /\ files = NoFiles
  /\ dirs = {}
  /\ call = NoCall
  /\ pre = NoFiles
  /\ faults = NoFaults
  /\ race = NoRace

Put(vs, path, d) ==
  /\ Idle
  /\ LET r == VsPut(vs, path, Bytes(d), kind, files)
     IN  /\ Cardinality(DOMAIN r.files) <= MaxFiles
         /\ files' = r.files
         /\ call' = [NoCall EXCEPT !.op = "Put", !.vs = vs, !.path = path,
                                   !.data = d, !.err = r.err, !.log = r.log]
  /\ dirs' = BackendDirs(kind, dirs, files')
  /\ pre' = files
  /\ UNCHANGED <<kind, faults, race>>

Get(vs, path) ==
  /\ Idle
  /\ LET r == VsGet(vs, path, kind, files)
     IN  call' = [NoCall EXCEPT !.op = "Get", !.vs = vs, !.path = path,
                                !.rc = r.rc, !.err = r.err, !.log = r.log]
  /\ pre' = files
  /\ UNCHANGED <<kind, faults, race, files, dirs>>

Exists(vs, path) ==
  /\ Idle
  /\ LET r == VsExists(vs, path, kind, files)
     IN  call' = [NoCall EXCEPT !.op = "Exists", !.vs = vs, !.path = path,
                                !.ok = r.ok, !.err = r.err, !.log = r.log]
  /\ pre' = files
  /\ UNCHANGED <<kind, faults, race, files, dirs>>

ListPrefixes == {<<>>, <<"w">>, Dir}

\* the listing is returned as entries: backend key -> logical name
List(vs, prefix) ==
  /\ Idle
  /\ LET r == VsList(vs, prefix, kind, files, dirs)
     IN  call' = [NoCall EXCEPT !.op = "List", !.vs = vs, !.path = prefix,
                                !.entries = r.entries, !.err = r.err]
  /\ pre' = files
  /\ UNCHANGED <<kind, faults, race, files, dirs>>

ListInfo(vs, prefix, t) ==
  /\ Idle
  /\ LET r == VsListInfo(vs, prefix, kind, files, dirs, t)
     IN  call' = [NoCall EXCEPT !.op = "ListInfo", !.vs = vs, !.path = prefix,
                                !.infos = r.infos, !.err = r.err]
  /\ pre' = files
  /\ UNCHANGED <<kind, faults, race, files, dirs>>

Delete(vs, path) ==
  /\ Idle
  /\ LET r == VsDelete(vs, path, kind, files)
     IN  /\ files' = r.files
         /\ call' = [NoCall EXCEPT !.op = "Delete", !.vs = vs, !.path = path,
                                   !.err = r.err, !.log = r.log]
  /\ dirs' = BackendDirs(kind, dirs, files')
  /\ pre' = files
  /\ UNCHANGED <<kind, faults, race>>

DeleteAllBulk(vs, paths) ==
  /\ Idle
  /\ LET r == VsDeleteAllBulk(vs, paths, kind, files)
     IN  /\ files' = r.files
         /\ call' = [NoCall EXCEPT !.op = "DeleteAllBulk", !.vs = vs,
                                   !.paths = paths, !.err = r.err, !.log = r.log]
  /\ dirs' = BackendDirs(kind, dirs, files')
  /\ pre' = files
  /\ UNCHANGED <<kind, faults, race>>

Rename(vs, oldRemotePath, newRemotePath) ==
  /\ Idle
  /\ LET r == VsRename(vs, oldRemotePath, newRemotePath, kind, files)
     IN  /\ files' = r.files
         /\ call' = [NoCall EXCEPT !.op = "Rename", !.vs = vs,
                                   !.path = oldRemotePath, !.to = newRemotePath,
                                   !.err = r.err, !.log = r.log]
  /\ dirs' = BackendDirs(kind, dirs, files')
  /\ pre' = files
  /\ UNCHANGED <<kind, faults, race>>

TransformingPut(ts, path, d) ==
  /\ Idle
  /\ LET r == TsPut(ts, path, Bytes(d), kind, files)
     IN  /\ Cardinality(DOMAIN r.files) <= MaxFiles
         /\ files' = r.files
         /\ call' = [NoCall EXCEPT !.op = "TsPut", !.ts = ts, !.path = path,
                                   !.data = d, !.err = r.err, !.log = r.log]
  /\ dirs' = BackendDirs(kind, dirs, files')
  /\ pre' = files
  /\ UNCHANGED <<kind, faults, race>>

TransformingGet(ts, path) ==
  /\ Idle
  /\ LET r == TsGet(ts, path, kind, files)
     IN  call' = [NoCall EXCEPT !.op = "TsGet", !.ts = ts, !.path = path,
                                !.rc = r.rc, !.err = r.err, !.log = r.log]
  /\ pre' = files
  /\ UNCHANGED <<kind, faults, race, files, dirs>>

TransformingExists(ts, path) ==
  /\ Idle
  /\ LET r == TsExists(ts, path, kind, files)
     IN  call' = [NoCall EXCEPT !.op = "TsExists", !.ts = ts, !.path = path,
                                !.ok = r.ok, !.err = r.err, !.log = r.log]
  /\ pre' = files
  /\ UNCHANGED <<kind, faults, race, files, dirs>>

TransformingDelete(ts, path) ==
  /\ Idle
  /\ LET r == TsDelete(ts, path, kind, files)
     IN  /\ files' = r.files
         /\ call' = [NoCall EXCEPT !.op = "TsDelete", !.ts = ts, !.path = path,
                                   !.err = r.err, !.log = r.log]
  /\ dirs' = BackendDirs(kind, dirs, files')
  /\ pre' = files
  /\ UNCHANGED <<kind, faults, race>>

TransformingDeleteAllBulk(ts, paths) ==
  /\ Idle
  /\ LET r == TsDeleteAllBulk(ts, paths, kind, files, dirs)
     IN  /\ files' = r.files
         /\ dirs' = BackendDirs(kind, r.dirs, files')
         /\ call' = [NoCall EXCEPT !.op = "TsDeleteAllBulk", !.ts = ts,
                                   !.paths = paths, !.slice = r.slice,
                                   !.err = r.err, !.log = r.log]
  /\ pre' = files
  /\ UNCHANGED <<kind, faults, race>>

\* the call has returned to its caller; the next call may start
Return ==
  /\ ~Idle
  /\ call' = NoCall
  /\ pre' = files
  /\ UNCHANGED <<kind, faults, race, files, dirs>>

\* the calls a client can make, each with every input of the model
PutAny ==
  Idle /\ \E vs \in Instances, path \in LogicalPaths, d \in Data : Put(vs, path, d)

PutByWriters ==
  Idle /\ \E vs \in Writers, path \in LogicalPaths, d \in Data : Put(vs, path, d)

GetAny == Idle /\ \E vs \in Readers, path \in Paths : Get(vs, path)

ExistsAny == Idle /\ \E vs \in Readers, path \in Paths : Exists(vs, path)

ListAny == Idle /\ \E vs \in Readers, prefix \in ListPrefixes : List(vs, prefix)

ListInfoAny ==
  Idle /\ \E vs \in Readers, prefix \in ListPrefixes, t \in Times :
            ListInfo(vs, prefix, t)

DeleteAny == Idle /\ \E vs \in Readers : \E path \in PathArgs(vs) : Delete(vs, path)

DeleteAllBulkAny ==
  Idle /\ \E vs \in Readers, paths \in BulkLists : DeleteAllBulk(vs, paths)

RenameAny ==
  Idle /\ \E vs \in Readers : \E a \in RenameArgs(vs) : Rename(vs, a[1], a[2])

Next ==
  \/ PutAny
  \/ GetAny
  \/ ExistsAny
  \/ ListAny
  \/ ListInfoAny
  \/ DeleteAny
  \/ DeleteAllBulkAny
  \/ RenameAny
  \/ Return

Spec == Init /\ [][Next]_vars

\* The same machine with the calls restricted to the handlers a property is
\* about.  Every content of the backend is reached by Put alone, one writer
\* per write suffix, so each restriction visits the same backends as Spec.

\* clients that write, through every instance
NextPut ==
  \/ PutAny
  \/ Return

SpecPut == Init /\ [][NextPut]_vars

\* clients that write and read
NextGet ==
  \/ PutByWriters
  \/ GetAny
  \/ Return

SpecGet == Init /\ [][NextGet]_vars

\* clients that write and delete
NextDelete ==
  \/ PutByWriters
  \/ DeleteAny
  \/ DeleteAllBulkAny
  \/ Return

SpecDelete == Init /\ [][NextDelete]_vars

\* clients that write and rename
NextRename ==
  \/ PutByWriters
  \/ RenameAny
  \/ Return

SpecRename == Init /\ [][NextRename]_vars

\* Rename of one logical name to another
RenameLogical ==
  Idle /\ \E vs \in Readers, o \in LogicalPaths, n \in LogicalPaths : Rename(vs, o, n)

\* clients that write, delete, rename and ask for existence
NextExists ==
  \/ PutByWriters
  \/ ExistsAny
  \/ DeleteAny
  \/ RenameLogical
  \/ Return

SpecExists == Init /\ [][NextExists]_vars

\* clients that write, delete and list
NextList ==
  \/ PutByWriters
  \/ DeleteAny
  \/ ListAny
  \/ ListInfoAny
  \/ Return

SpecList == Init /\ [][NextList]_vars

\* The naming functions on their own: the arguments are fixed at the start
\* and each step applies one function to them.

ExtTokens == {".gz", ".zst", ".aes"}

\* write suffixes a caller may ask for, two of them outside dynstor.go's list
WriteExts == AllExts \cup {<<".bz2">>, <<".aes", ".gz">>}

\* names: a base followed by up to MaxExts extension tokens
Names ==
  {Dir \o <<"a">> \o s : s \in UNION {[1..n -> ExtTokens] : n \in 0..MaxExts}}

InitNames ==
  /\ kind \in {"mem", "local"}
  /\ files = NoFiles
  /\ dirs = {}
  /\ pre = NoFiles
  /\ faults = NoFaults
  /\ race = NoRace
  /\ call \in {[NoCall EXCEPT !.alg = a, !.writeExt = w, !.path = p] :
                  a \in AlgSets, w \in WriteExts, p \in Names}

New ==
  /\ Idle
  /\ LET r == NewVariadicStorage(call.alg, call.writeExt)
     IN  call' = [call EXCEPT !.op = "New", !.vs = r.vs, !.err = r.err]
  /\ UNCHANGED <<kind, faults, race, files, dirs, pre>>

SupportedExts ==
  /\ Idle
  /\ LET r == NewVariadicStorage(call.alg, call.writeExt)
     IN  /\ r.err = Nil
         /\ call' = [call EXCEPT !.op = "supportedExts", !.vs = r.vs,
                                 !.exts = supportedExts(r.vs)]
  /\ UNCHANGED <<kind, faults, race, files, dirs, pre>>

EncodePath ==
  /\ Idle
  /\ LET r == NewVariadicStorage(call.alg, call.writeExt)
     IN  /\ r.err = Nil
         /\ call' = [call EXCEPT !.op = "encodePath", !.vs = r.vs,
                                 !.name = encodePath(r.vs, call.path)]
  /\ UNCHANGED <<kind, faults, race, files, dirs, pre>>

DecodePath ==
  /\ Idle
  /\ LET r == NewVariadicStorage(call.alg, call.writeExt)
     IN  /\ r.err = Nil
         /\ call' = [call EXCEPT !.op = "decodePath", !.vs = r.vs,
                                 !.name = decodePath(r.vs, call.path)]
  /\ UNCHANGED <<kind, faults, race, files, dirs, pre>>

NextNames ==
  \/ New
  \/ SupportedExts
  \/ EncodePath
  \/ DecodePath

SpecNames == InitNames /\ [][NextNames]_vars

TransformsFromName ==
  /\ Idle
  /\ LET r == NewVariadicStorage(call.alg, call.writeExt)
     IN  /\ r.err = Nil
         /\ call' = [call EXCEPT !.op = "transformsFromName", !.vs = r.vs,
                                 !.transforms = transformsFromName(r.vs, call.path)]
  /\ UNCHANGED <<kind, faults, race, files, dirs, pre>>

NextTransforms ==
  \/ New
  \/ TransformsFromName

SpecTransforms == InitNames /\ [][NextTransforms]_vars

\* clients of fixed-format storages that share one backend; a path may
\* itself end in an extension
TransformingPaths == LogicalPaths \cup {Dir \o <<"a">> \o ExtGz}

TransformingPutAny ==
  Idle /\ \E ts \in Transformings, path \in TransformingPaths, d \in Data :
            TransformingPut(ts, path, d)

TransformingGetAny ==
  Idle /\ \E ts \in Transformings, path \in TransformingPaths :
            TransformingGet(ts, path)

TransformingExistsAny ==
  Idle /\ \E ts \in Transformings, path \in TransformingPaths :
            TransformingExists(ts, path)

TransformingDeleteAny ==
  Idle /\ \E ts \in Transformings, path \in TransformingPaths :
            TransformingDelete(ts, path)

NextTransforming ==
  \/ TransformingPutAny
  \/ TransformingGetAny
  \/ TransformingExistsAny
  \/ TransformingDeleteAny
  \/ Return

SpecTransforming == Init /\ [][NextTransforming]_vars

\* The same clients on an S3 bucket whose service refuses some requests.

\* one payload is enough where the content plays no part
PutOne ==
  Idle /\ \E vs \in Writers, path \in LogicalPaths : Put(vs, path, "x")

InitS3(requests) ==
  /\ kind = "s3"
  /\ files = NoFiles
  /\ dirs = {}
  /\ call = NoCall
  /\ pre = NoFiles
  /\ faults \in [FaultyKeys -> requests \cup {"none"}]
  /\ race = NoRace

\* deletes on each backend, on S3 with refused deletes
InitDeleteErrors == Init \/ InitS3({"DeleteObject"})

NextDeleteErrors ==
  \/ PutOne
  \/ DeleteAny
  \/ DeleteAllBulkAny
  \/ Return

SpecDeleteErrors == InitDeleteErrors /\ [][NextDeleteErrors]_vars

\* renames and deletes on each backend, on S3 with refused requests on the
\* variants of one name
InitRenameErrors ==
  \/ Init
  \/ /\ InitS3({"HeadObject", "CopyObject", "DeleteObject"})
     /\ faults[Dir \o <<"b">> \o ExtGz] = "none"

NextRenameErrors ==
  \/ PutOne
  \/ RenameLogical
  \/ DeleteAny
  \/ Return

SpecRenameErrors == InitRenameErrors /\ [][NextRenameErrors]_vars

\* Calls that overlap in time.  The layer takes no lock, so between two
\* backend calls of one call any backend call of another may happen: a step
\* below is one backend call of a call in progress.

\* Get's first lines: a name with a known suffix is fetched as it is, another
\* is searched for
getStart(vs, path) ==
  LET p == ToSlash(path)
  IN  IF explicitExt(supportedExts(vs), 1, p) # 0
        THEN [NoGet EXCEPT !.pc = "fetch", !.vs = vs, !.path = p, !.name = p]
        ELSE [NoGet EXCEPT !.pc = "probe", !.vs = vs, !.path = p, !.i = 1]

\* one round of findExistingName's loop: one Backend.Exists
getProbe(g, k, m) ==
  LET exts == supportedExts(g.vs)
      candidate == g.path \o exts[g.i]
      r == BackendExists(k, m, candidate)
      l == Append(g.log, <<"Exists", candidate>>)
  IN  IF r.err # Nil THEN [g EXCEPT !.pc = "done", !.err = r.err, !.log = l]
      ELSE IF r.ok THEN [g EXCEPT !.pc = "fetch", !.name = candidate, !.log = l]
      ELSE IF g.i = Len(exts)
        THEN [g EXCEPT !.pc = "done", !.err = ErrNotExist, !.log = l]
      ELSE [g EXCEPT !.i = g.i + 1, !.log = l]

\* a fetch of the name as the caller gave it, whatever the search found
getFetchGiven(g, k, m) ==
  LET r == fetchDecoded(g.vs, g.path, g.log, k, m)
  IN  [g EXCEPT !.pc = "done", !.rc = r.rc, !.err = r.err, !.log = r.log]

\* Backend.Get of the name found and the decoding by its suffix
getFetch(g, k, m) ==
  LET r == fetchDecoded(g.vs, g.name, g.log, k, m)
  IN  [g EXCEPT !.pc = "done", !.rc = r.rc, !.err = r.err, !.log = r.log]

deleteStart(vs, path) ==
  [NoDelete EXCEPT !.pc = "step", !.vs = vs, !.path = ToSlash(path), !.i = 1]

\* one round of Delete's loop: one Backend.Delete
deleteStep(d, k, m) ==
  LET exts == supportedExts(d.vs)
      r == BackendDelete(k, m, d.path \o exts[d.i])
      lastErr == IF r.err # Nil /\ ~IsErrNotExist(r.err) THEN r.err ELSE d.lastErr
  IN  [del |-> [d EXCEPT !.pc = IF d.i = Len(exts) THEN "done" ELSE "step",
                         !.i = d.i + 1, !.lastErr = lastErr],
       files |-> r.files]

\* every object of a name holds the payload of that name
OwnData(path) == IF path = Dir \o <<"a">> THEN "x" ELSE "y"

\* writes while no call is in progress
QuietPut ==
  /\ race = NoRace
  /\ Idle
  /\ \E vs \in Writers, path \in LogicalPaths : Put(vs, path, OwnData(path))

\* the name the overlapping reader asks for
RacePath == Dir \o <<"a">>

\* the instances that delete or rename while the reader reads
RaceWriters == {vs \in Readers : vs.alg.Gzip}

GetStart ==
  /\ Idle
  /\ race.get.pc = "idle"
  /\ \E vs \in Readers : race' = [race EXCEPT !.get = getStart(vs, RacePath)]
  /\ pre' = files
  /\ UNCHANGED <<kind, faults, files, dirs, call>>

GetProbe ==
  /\ race.get.pc = "probe"
  /\ race' = [race EXCEPT !.get = getProbe(race.get, kind, files)]
  /\ UNCHANGED <<kind, faults, files, dirs, call, pre>>

GetFetch ==
  /\ race.get.pc = "fetch"
  /\ race' = [race EXCEPT !.get = getFetch(race.get, kind, files)]
  /\ UNCHANGED <<kind, faults, files, dirs, call, pre>>

DeleteStart ==
  /\ Idle
  /\ race.del.pc = "idle"
  /\ \E vs \in RaceWriters, path \in LogicalPaths :
       race' = [race EXCEPT !.del = deleteStart(vs, path)]
  /\ UNCHANGED <<kind, faults, files, dirs, call, pre>>

DeleteStep ==
  /\ race.del.pc = "step"
  /\ LET r == deleteStep(race.del, kind, files)
     IN  /\ race' = [race EXCEPT !.del = r.del]
         /\ files' = r.files
  /\ dirs' = BackendDirs(kind, dirs, files')
  /\ UNCHANGED <<kind, faults, call, pre>>

\* the calls have returned
RaceEnd ==
  /\ race # NoRace
  /\ race.get.pc \in {"idle", "done"}
  /\ race.del.pc \in {"idle", "done"}
  /\ race.ren.pc \in {"idle", "done"}
  /\ race' = NoRace
  /\ pre' = files
  /\ UNCHANGED <<kind, faults, files, dirs, call>>

NextGetDelete ==
  \/ QuietPut
  \/ Return
  \/ GetStart
  \/ GetProbe
  \/ GetFetch
  \/ DeleteStart
  \/ DeleteStep
  \/ RaceEnd

SpecGetDelete == Init /\ [][NextGetDelete]_vars

\* Rename's first lines: the decoded names, and nothing to do when they agree
renameStart(vs, oldRemotePath, newRemotePath, m) ==
  LET oldBase == decodePath(vs, ToSlash(oldRemotePath))
      newBase == decodePath(vs, ToSlash(newRemotePath))
  IN  [NoRename EXCEPT !.pc = IF oldBase = newBase THEN "done" ELSE "step",
                       !.vs = vs, !.oldBase = oldBase, !.newBase = newBase,
                       !.i = 1, !.start = m]

\* a round of Rename's loop that takes the suffixes from the last to the first
renameStepLastFirst(r, k, m) ==
  LET exts == supportedExts(r.vs)
      ext == exts[Len(exts) + 1 - r.i]
      e == BackendExists(k, m, r.oldBase \o ext)
      b == BackendRename(k, m, r.oldBase \o ext, r.newBase \o ext)
      next == [r EXCEPT !.pc = IF r.i = Len(exts) THEN "done" ELSE "step",
                        !.i = r.i + 1]
  IN  IF e.err # Nil THEN [ren |-> [next EXCEPT !.lastErr = e.err], files |-> m]
      ELSE IF ~e.ok THEN [ren |-> next, files |-> m]
      ELSE [ren |-> [next EXCEPT !.lastErr = IF b.err # Nil THEN b.err ELSE @],
            files |-> b.files]

\* one round of Rename's loop: the probe of one variant and its rename
renameStep(r, k, m) ==
  LET exts == supportedExts(r.vs)
      oldPhys == r.oldBase \o exts[r.i]
      newPhys == r.newBase \o exts[r.i]
      e == BackendExists(k, m, oldPhys)
      b == BackendRename(k, m, oldPhys, newPhys)
      next == [r EXCEPT !.pc = IF r.i = Len(exts) THEN "done" ELSE "step",
                        !.i = r.i + 1]
  IN  IF e.err # Nil THEN [ren |-> [next EXCEPT !.lastErr = e.err], files |-> m]
      ELSE IF ~e.ok THEN [ren |-> next, files |-> m]
      ELSE [ren |-> [next EXCEPT !.lastErr = IF b.err # Nil THEN b.err ELSE @],
            files |-> b.files]

\* writes of either payload while no call is in progress
QuietPutAny == race = NoRace /\ PutByWriters

RenameStart ==
  /\ Idle
  /\ race.ren.pc = "idle"
  /\ \E vs \in RaceWriters, n \in LogicalPaths :
       /\ vs.alg.AES
       /\ race' = [race EXCEPT !.ren = renameStart(vs, RacePath, n, files)]
  /\ UNCHANGED <<kind, faults, files, dirs, call, pre>>

RenameStep ==
  /\ race.ren.pc = "step"
  /\ LET r == renameStep(race.ren, kind, files)
     IN  /\ race' = [race EXCEPT !.ren = r.ren]
         /\ files' = r.files
  /\ dirs' = BackendDirs(kind, dirs, files')
  /\ UNCHANGED <<kind, faults, call, pre>>

\* a reader's Exists or Get of the old or the new name, through the same
\* configuration, between two rounds of the Rename
ReadDuringRename ==
  /\ Idle
  /\ race.ren.pc = "step"
  /\ \E path \in {race.ren.oldBase, race.ren.newBase} :
       \/ Exists(race.ren.vs, path)
       \/ Get(race.ren.vs, path)

NextRenameRead ==
  \/ QuietPutAny
  \/ Return
  \/ RenameStart
  \/ RenameStep
  \/ ReadDuringRename
  \/ RaceEnd

SpecRenameRead == Init /\ [][NextRenameRead]_vars

\* A client of the Storage interface itself: Get and Delete of one key on the
\* backend, with no name resolution in between.

StorageGet(path) ==
  /\ Idle
  /\ LET r == BackendGet(kind, files, path)
     IN  call' = [NoCall EXCEPT !.op = "Storage.Get", !.path = path,
                                !.rc = r.rc, !.err = r.err]
  /\ pre' = files
  /\ UNCHANGED <<kind, faults, race, files, dirs>>

StorageDelete(path) ==
  /\ Idle
  /\ LET r == BackendDelete(kind, files, path)
     IN  /\ files' = r.files
         /\ call' = [NoCall EXCEPT !.op = "Storage.Delete", !.path = path,
                                   !.err = r.err]
  /\ dirs' = BackendDirs(kind, dirs, files')
  /\ pre' = files
  /\ UNCHANGED <<kind, faults, race>>

StorageGetAny == Idle /\ \E path \in Paths : StorageGet(path)

StorageDeleteAny == Idle /\ \E path \in Paths : StorageDelete(path)

\* each backend, S3 answering every request
InitStorage == Init \/ InitS3({})

NextStorage ==
  \/ PutOne
  \/ StorageGetAny
  \/ StorageDeleteAny
  \/ Return

SpecStorage == InitStorage /\ [][NextStorage]_vars

\* Writers that are also given names ending in a suffix of the list
PutNamed ==
  Idle /\ \E vs \in Writers, path \in TransformingPaths, d \in Data : Put(vs, path, d)

NextPutNamed ==
  \/ PutNamed
  \/ Return

SpecPutNamed == Init /\ [][NextPutNamed]_vars

\* Bulk deletes through the fixed-format wrapper, on each backend.

\* the path lists given to the wrapper: distinct names, the directory of the
\* names among them
TransformingBulkLists ==
  {q \in SeqsUpTo(LogicalPaths \cup {<<"w">>}, MaxBulk) :
     \A i \in DOMAIN q, j \in DOMAIN q : q[i] = q[j] => i = j}

TransformingPutOne ==
  Idle /\ \E ts \in Transformings, path \in TransformingPaths :
            TransformingPut(ts, path, "x")

TransformingDeleteAllBulkAny ==
  Idle /\ \E ts \in Transformings, paths \in TransformingBulkLists :
            TransformingDeleteAllBulk(ts, paths)

NextTransformingBulk ==
  \/ TransformingPutOne
  \/ TransformingDeleteAllBulkAny
  \/ Return

SpecTransformingBulk == InitStorage /\ [][NextTransformingBulk]_vars

\* Clients working on three names of one directory.

IsolationPaths == LogicalPaths \cup {Dir \o <<"c">>}

\* the writers: one per write suffix of the Algorithms set {gzip, aes}
IsolationWriters == {vs \in Instances : vs.alg.Gzip /\ ~vs.alg.Zstd /\ vs.alg.AES}

\* the readers: one that knows every suffix written, one that knows .gz only
IsolationReaders == {vs \in Readers : vs.alg.Gzip /\ ~vs.alg.Zstd}

PutOwn ==
  Idle /\ \E vs \in IsolationWriters, path \in IsolationPaths :
            Put(vs, path, OwnData(path))

GetNamed ==
  Idle /\ \E vs \in IsolationReaders, path \in IsolationPaths : Get(vs, path)

ExistsNamed ==
  Idle /\ \E vs \in IsolationReaders, path \in IsolationPaths : Exists(vs, path)

DeleteNamed ==
  Idle /\ \E vs \in IsolationReaders, path \in IsolationPaths : Delete(vs, path)

RenameNamed ==
  Idle /\ \E vs \in IsolationReaders, o \in IsolationPaths, n \in IsolationPaths :
            Rename(vs, o, n)

NextIsolation ==
  \/ PutOwn
  \/ GetNamed
  \/ ExistsNamed
  \/ DeleteNamed
  \/ RenameNamed
  \/ Return

SpecIsolation == Init /\ [][NextIsolation]_vars

\* Readers on each backend, on S3 with refused existence probes.

InitProbeErrors == Init \/ InitS3({"HeadObject"})

GetLogical == Idle /\ \E vs \in Readers, path \in LogicalPaths : Get(vs, path)

ExistsLogical == Idle /\ \E vs \in Readers, path \in LogicalPaths : Exists(vs, path)

NextProbeErrors ==
  \/ PutOne
  \/ GetLogical
  \/ ExistsLogical
  \/ Return

SpecProbeErrors == InitProbeErrors /\ [][NextProbeErrors]_vars

\* A client of the in-memory backend itself: writes and renames of keys, the
\* renames under a context that may be cancelled.

InitInMemory == Init /\ kind = "mem"

StoragePut(path, d) ==
  /\ Idle
  /\ LET r == InMemoryPut(files, path, Bytes(d))
     IN  /\ Cardinality(DOMAIN r.files) <= MaxFiles
         /\ files' = r.files
         /\ call' = [NoCall EXCEPT !.op = "Storage.Put", !.path = path,
                                   !.data = d, !.err = r.err]
  /\ pre' = files
  /\ UNCHANGED <<kind, faults, race, dirs>>

StorageRename(oldRemotePath, newRemotePath, ctx) ==
  /\ Idle
  /\ LET r == InMemoryRenameCtx(files, oldRemotePath, newRemotePath, ctx)
     IN  /\ files' = r.files
         /\ call' = [NoCall EXCEPT !.op = "Storage.Rename",
                                   !.path = oldRemotePath, !.to = newRemotePath,
                                   !.ctx = ctx, !.err = r.err]
  /\ pre' = files
  /\ UNCHANGED <<kind, faults, race, dirs>>

StoragePutAny ==
  Idle /\ \E path \in TransformingPaths, d \in Data : StoragePut(path, d)

StorageRenameAny ==
  Idle /\ \E o \in TransformingPaths, n \in TransformingPaths, ctx \in Contexts :
            StorageRename(o, n, ctx)

NextInMemory ==
  \/ StoragePutAny
  \/ StorageRenameAny
  \/ Return

SpecInMemory == InitInMemory /\ [][NextInMemory]_vars

\* Every handler that walks the suffix list, on each backend, on S3 with
\* refused reads.

InitScan == Init \/ InitS3({"GetObject"})

DeleteLogical == Idle /\ \E vs \in Readers, path \in LogicalPaths : Delete(vs, path)

NextScan ==
  \/ PutOne
  \/ GetLogical
  \/ ExistsLogical
  \/ DeleteLogical
  \/ RenameLogical
  \/ Return

SpecScan == InitScan /\ [][NextScan]_vars

----------------------------------------------------------------------------
(* Vocabulary of the properties *)

\* the suffixes under which base name p is stored, among those vs knows
Variants(vs, p, m) == {e \in Range(supportedExts(vs)) : p \o e \in DOMAIN m}

\* the documented lookup priority
PriorityOrder == <<ExtGzAes, ExtZstAes, ExtGz, ExtZst, ExtAes, ExtPlain>>

\* position of a suffix in the documented priority
Rank(e) == CHOOSE i \in 1..Len(PriorityOrder) : PriorityOrder[i] = e

\* the stored variant of p whose suffix comes first in the priority
FirstVariant(vs, p, m) ==
  LET e == CHOOSE x \in Variants(vs, p, m) :
             \A y \in Variants(vs, p, m) : Rank(x) <= Rank(y)
  IN  p \o e

\* the bytes stored at key, decoded by the transforms its suffix names
DecodedBySuffix(vs, key, m) ==
  LET t == transformsFromName(vs, key)
  IN  DecryptAndDecompressOptional(m[key], t.crypter, t.decompressor)

\* Algorithms set a has every algorithm of b
Superset(a, b) ==
  /\ b.Gzip => a.Gzip
  /\ b.Zstd => a.Zstd
  /\ b.AES => a.AES

\* the instances other than w whose Algorithms set includes w's
SupersetReaders(w) == {r \in Instances : r # w /\ Superset(r.alg, w.alg)}

\* a path of the model is a logical path followed by extension tokens
LogicalOf(path) == SubSeq(path, 1, Len(Dir) + 1)

SuffixOf(path) == SubSeq(path, Len(Dir) + 2, Len(path))

\* path is a logical path with a suffix that vs knows, the empty one included
HasKnownSuffix(vs, path) ==
  /\ LogicalOf(path) \in LogicalPaths
  /\ SuffixOf(path) \in Range(supportedExts(vs))

\* path ends with a non-empty suffix that vs knows
EndsInKnownExt(vs, path) ==
  \E e \in Range(supportedExts(vs)) : e # ExtPlain /\ HasSuffix(path, e)

----------------------------------------------------------------------------
(* C1: round trip.  For every constructible instance (every Algorithms set *)
(* and every write suffix it accepts): after Put(p, data) on a backend     *)
(* that held no variant of p, Exists(p) through the same instance is true  *)
(* and Get(p) returns exactly data.                                        *)
C1_RoundTrip ==
  (call.op = "Put" /\ call.err = Nil /\ Variants(call.vs, call.path, pre) = {})
    => /\ VsExists(call.vs, call.path, kind, files).ok
       /\ VsExists(call.vs, call.path, kind, files).err = Nil
       /\ VsGet(call.vs, call.path, kind, files).err = Nil
       /\ VsGet(call.vs, call.path, kind, files).rc = Bytes(call.data)

C1_Witness ==
  /\ call.op = "Put" /\ call.err = Nil
  /\ call.vs.writeExt = ExtZstAes
  /\ Variants(call.vs, call.path, pre) = {}
  /\ pre # NoFiles
  /\ VsExists(call.vs, call.path, kind, files).ok
  /\ VsGet(call.vs, call.path, kind, files).rc = Bytes(call.data)

(* C2: priority determinism.  When Get is given a logical name of which at *)
(* least one variant is stored, it succeeds with the decoded content of    *)
(* the stored variant whose suffix comes first in .gz.aes, .zst.aes, .gz,  *)
(* .zst, .aes, plain - a function of the backend's content alone, whatever *)
(* the order of the writes - and it leaves the backend as it was, so that  *)
(* a repeated Get resolves to the same variant.                            *)
C2_Priority ==
  (call.op = "Get" /\ ~EndsInKnownExt(call.vs, call.path)
     /\ Variants(call.vs, call.path, files) # {})
    => /\ call.err = Nil
       /\ call.rc = DecodedBySuffix(call.vs,
                                    FirstVariant(call.vs, call.path, files), files)
       /\ files = pre
       /\ VsGet(call.vs, call.path, kind, files).rc = call.rc

C2_Witness ==
  /\ call.op = "Get" /\ call.path \in LogicalPaths
  /\ {ExtGz, ExtPlain} \subseteq Variants(call.vs, call.path, files)
  /\ files[call.path \o ExtGz].payload # files[call.path].payload
  /\ call.rc = DecodedBySuffix(call.vs, call.path \o ExtGz, files)
  /\ call.rc \in {Bytes(d) : d \in Data}

(* C3, as stated: an object written by Put(p, data) through an instance   *)
(* with write suffix X is found by Exists(p) and read back as data by     *)
(* Get(p) through every other instance whose Algorithms set includes the  *)
(* writer's - on any backend, whatever else it holds.                     *)
C3_AnyBackend ==
  (call.op = "Put" /\ call.err = Nil)
    => \A r \in SupersetReaders(call.vs) :
         LET e == VsExists(r, call.path, kind, files)
             g == VsGet(r, call.path, kind, files)
         IN  e.ok /\ g.err = Nil /\ g.rc = Bytes(call.data)

(* C3, amended: the same, for a backend that before the Put held no       *)
(* variant of p under a suffix that precedes X in the lookup priority of  *)
(* the reader (variants of lower priority, and an older object under X    *)
(* itself, may be there).                                                 *)
C3_CrossConfig ==
  (call.op = "Put" /\ call.err = Nil)
    => \A r \in SupersetReaders(call.vs) :
         (\A x \in Variants(r, call.path, pre) : Rank(x) >= Rank(call.vs.writeExt))
           => LET e == VsExists(r, call.path, kind, files)
                  g == VsGet(r, call.path, kind, files)
              IN  e.ok /\ e.err = Nil /\ g.err = Nil /\ g.rc = Bytes(call.data)

C3_Witness ==
  /\ call.op = "Put" /\ call.err = Nil
  /\ call.vs = [alg |-> [Gzip |-> TRUE, Zstd |-> FALSE, AES |-> FALSE],
                writeExt |-> ExtGz]
  /\ call.path \in DOMAIN pre
  /\ pre[call.path].payload # call.data
  /\ LET r == [alg |-> [Gzip |-> TRUE, Zstd |-> TRUE, AES |-> TRUE],
               writeExt |-> ExtZstAes]
     IN  /\ VsExists(r, call.path, kind, files).ok
         /\ VsGet(r, call.path, kind, files).rc = Bytes(call.data)

(* C4: explicit-extension bypass.  When the path given to Get ends with a *)
(* non-empty suffix the instance knows, Get issues exactly one backend    *)
(* call, the fetch of that very name (no existence probe, no priority     *)
(* search), and returns that object decoded by its suffix - also when a   *)
(* variant of higher priority is stored; when the object is absent it     *)
(* returns the backend's error and no stream.                             *)
C4_ExplicitExt ==
  (call.op = "Get" /\ EndsInKnownExt(call.vs, call.path))
    => /\ call.log = <<<<"Get", call.path>>>>
       /\ files = pre
       /\ IF call.path \in DOMAIN files
            THEN /\ call.err = Nil
                 /\ call.rc = DecodedBySuffix(call.vs, call.path, files)
            ELSE /\ call.err # Nil
                 /\ call.rc = NoStream

C4_Witness ==
  /\ call.op = "Get"
  /\ call.vs.alg.Gzip /\ call.vs.alg.AES
  /\ \E p \in LogicalPaths :
       /\ call.path = p \o ExtGz
       /\ p \o ExtGz \in DOMAIN files
       /\ p \o ExtGzAes \in DOMAIN files
       /\ files[p \o ExtGz].payload # files[p \o ExtGzAes].payload
       /\ call.rc = Bytes(files[p \o ExtGz].payload)
       /\ VsGet(call.vs, p, kind, files).rc = Bytes(files[p \o ExtGzAes].payload)

(* C5: delete completeness.  After Delete(path) returns without error the *)
(* backend holds no object path + e for any suffix e the instance knows,  *)
(* whichever of them it held before; Exists(path) is then false and no    *)
(* listing has an entry equal to path.                                    *)
C5_DeleteComplete ==
  (call.op = "Delete" /\ call.err = Nil)
    => /\ \A e \in Range(supportedExts(call.vs)) : call.path \o e \notin DOMAIN files
       /\ ~VsExists(call.vs, call.path, kind, files).ok
       /\ VsExists(call.vs, call.path, kind, files).err = Nil
       /\ \A prefix \in ListPrefixes :
            LET l == VsList(call.vs, prefix, kind, files, dirs)
            IN  \A key \in DOMAIN l.entries : l.entries[key] # call.path

C5_Witness ==
  /\ call.op = "Delete" /\ call.err = Nil
  /\ kind = "local"
  /\ call.path \in LogicalPaths
  /\ Len(supportedExts(call.vs)) > 2
  /\ Cardinality(Variants(call.vs, call.path, pre)) = 2
  /\ Variants(call.vs, call.path, files) = {}
  /\ ~VsExists(call.vs, call.path, kind, files).ok

(* C6: Delete tolerates missing variants.  Delete and DeleteAllBulk       *)
(* return no error whichever of the candidates path + e are stored, on    *)
(* the local backend and on the in-memory backend of the unit tests.      *)
C6_DeleteTolerant ==
  call.op \in {"Delete", "DeleteAllBulk"} => call.err = Nil

(* C7: rename preserves all variants.  When old has variants and new has  *)
(* none, after Rename(old, new) returns nil every variant of old is       *)
(* stored at new + the same suffix with the same bytes and none is left   *)
(* at old; Exists(old) is false, Exists(new) is true, Get(new) returns    *)
(* what Get(old) returned before, and Get(new + suffix) returns each      *)
(* variant's content.                                                     *)
C7_RenameVariants ==
  (/\ call.op = "Rename" /\ call.err = Nil
   /\ call.path \in LogicalPaths /\ call.to \in LogicalPaths
   /\ Variants(call.vs, call.path, pre) # {}
   /\ Variants(call.vs, call.to, pre) = {})
    => /\ \A e \in Variants(call.vs, call.path, pre) :
            /\ call.to \o e \in DOMAIN files
            /\ files[call.to \o e] = pre[call.path \o e]
       /\ Variants(call.vs, call.path, files) = {}
       /\ Variants(call.vs, call.to, files) = Variants(call.vs, call.path, pre)
       /\ ~VsExists(call.vs, call.path, kind, files).ok
       /\ VsExists(call.vs, call.to, kind, files).ok
       /\ VsGet(call.vs, call.to, kind, files).err = Nil
       /\ VsGet(call.vs, call.to, kind, files).rc
            = VsGet(call.vs, call.path, kind, pre).rc
       /\ \A e \in Variants(call.vs, call.path, pre) \ {ExtPlain} :
            /\ VsGet(call.vs, call.to \o e, kind, files).err = Nil
            /\ VsGet(call.vs, call.to \o e, kind, files).rc
                 = DecodedBySuffix(call.vs, call.path \o e, pre)

C7_Witness ==
  /\ call.op = "Rename" /\ call.err = Nil
  /\ call.path \in LogicalPaths /\ call.to \in LogicalPaths
  /\ Variants(call.vs, call.path, pre) = {ExtZst, ExtPlain}
  /\ Variants(call.vs, call.to, pre) = {}
  /\ pre[call.path \o ExtZst].payload # pre[call.path].payload
  /\ DOMAIN files = {call.to \o ExtZst, call.to}
  /\ VsGet(call.vs, call.to, kind, files).rc = Bytes(pre[call.path \o ExtZst].payload)

(* C8: rename normalizes its arguments.  For suffixes e1 and e2 that the  *)
(* instance knows, Rename(old + e1, new + e2) leaves the backend as       *)
(* Rename(old, new) leaves it, with the same result and the same backend  *)
(* calls; every stored variant of old is moved, not only the one the      *)
(* argument names.                                                        *)
C8_RenameNormalizes ==
  (/\ call.op = "Rename"
   /\ HasKnownSuffix(call.vs, call.path)
   /\ HasKnownSuffix(call.vs, call.to))
    => LET o == LogicalOf(call.path)
           n == LogicalOf(call.to)
           r == VsRename(call.vs, o, n, kind, pre)
       IN  /\ files = r.files
           /\ call.err = r.err
           /\ call.log = r.log
           /\ o # n => \A e \in Variants(call.vs, o, pre) :
                         /\ o \o e \notin DOMAIN files
                         /\ n \o e \in DOMAIN files
                         /\ files[n \o e] = pre[o \o e]

C8_Witness ==
  /\ call.op = "Rename" /\ call.err = Nil
  /\ \E o \in LogicalPaths, n \in LogicalPaths :
       /\ o # n
       /\ call.path = o \o ExtGz
       /\ call.to = n \o ExtZst
       /\ DOMAIN pre = {o \o ExtZst, o}
       /\ DOMAIN files = {n \o ExtZst, n}
       /\ files[n \o ExtZst] = pre[o \o ExtZst]
       /\ files[n] = pre[o]

(* C9: no-op rename.  Rename(a, b) where a and b are one logical name p,  *)
(* each with or without a suffix the instance knows (Rename(p, p) among   *)
(* them), returns nil, issues no backend call and leaves every backend    *)
(* object as it was.                                                      *)
C9_NoOpRename ==
  (/\ call.op = "Rename"
   /\ HasKnownSuffix(call.vs, call.path)
   /\ HasKnownSuffix(call.vs, call.to)
   /\ LogicalOf(call.path) = LogicalOf(call.to))
    => /\ call.err = Nil
       /\ call.log = <<>>
       /\ files = pre

C9_Witness ==
  /\ call.op = "Rename" /\ call.err = Nil
  /\ \E p \in LogicalPaths :
       /\ call.path = p \o ExtGzAes
       /\ call.to = p \o ExtZstAes
       /\ DOMAIN files = {p \o ExtGzAes, p \o ExtZstAes}
  /\ call.log = <<>>
  /\ files = pre

(* C10: Put writes one variant and nothing else.  Put(path, data) through *)
(* an instance with write suffix W issues one backend call, the write of  *)
(* path + W; afterwards that object decodes to data and every other       *)
(* object, the other variants of path among them, is as before, whatever  *)
(* the place of W in the lookup priority.                                 *)
C10_PutOneVariant ==
  call.op = "Put"
    => LET stored == call.path \o call.vs.writeExt
       IN  /\ call.err = Nil
           /\ call.log = <<<<"Put", stored>>>>
           /\ DOMAIN files = DOMAIN pre \cup {stored}
           /\ DecodedBySuffix(call.vs, stored, files) = Bytes(call.data)
           /\ \A key \in DOMAIN pre \ {stored} : files[key] = pre[key]

C10_Witness ==
  /\ call.op = "Put" /\ call.err = Nil
  /\ call.vs.writeExt = ExtZst
  /\ DOMAIN pre = {call.path \o ExtGzAes, call.path \o ExtZst}
  /\ DOMAIN files = DOMAIN pre
  /\ files[call.path \o ExtGzAes] = pre[call.path \o ExtGzAes]
  /\ files[call.path \o ExtZst] # pre[call.path \o ExtZst]
  /\ files[call.path \o ExtZst].payload = call.data

(* C11: Exists.  Exists(path) answers true exactly when the backend holds *)
(* path + e for some suffix e the instance knows, and false with no error *)
(* when it holds none; it changes nothing; and the answer is that of the  *)
(* backend as it is now: right after a Put, a Delete or a Rename, Exists  *)
(* of the names the call touched answers from the new content.            *)
C11_Exists ==
  /\ call.op = "Exists"
       => /\ call.err = Nil
          /\ call.ok = (Variants(call.vs, call.path, files) # {})
          /\ files = pre
  /\ call.op \in {"Put", "Delete", "Rename"}
       => \A p \in {call.path, call.to} :
            LET e == VsExists(call.vs, p, kind, files)
            IN  e.err = Nil /\ e.ok = (Variants(call.vs, p, files) # {})

C11_Witness ==
  /\ call.op = "Exists" /\ call.ok /\ call.err = Nil
  /\ Len(supportedExts(call.vs)) = 6
  /\ call.path \in LogicalPaths
  /\ Variants(call.vs, call.path, files) = {ExtPlain}
  /\ Cardinality(DOMAIN files) = 2

(* C12: Get of a missing name.  Get of a logical path (one that does not *)
(* end in a suffix the instance knows) of which the backend holds no      *)
(* variant fails with an error that errors.Is recognises as               *)
(* fs.ErrNotExist and returns no stream, never an empty stream in place   *)
(* of the error.                                                          *)
C12_GetNotFound ==
  (/\ call.op = "Get"
   /\ ~EndsInKnownExt(call.vs, call.path)
   /\ Variants(call.vs, call.path, pre) = {})
    => /\ call.err # Nil
       /\ IsErrNotExist(call.err)
       /\ call.rc = NoStream

C12_Witness ==
  /\ call.op = "Get" /\ call.err = ErrNotExist /\ call.rc = NoStream
  /\ ~EndsInKnownExt(call.vs, call.path)
  /\ Variants(call.vs, call.path, pre) = {}
  /\ Len(call.log) = Len(supportedExts(call.vs))
  /\ Len(call.log) >= 3
  /\ pre # NoFiles

\* the longest suffix vs knows that key ends with
LongestKnownExt(vs, key) ==
  CHOOSE e \in Range(supportedExts(vs)) :
    /\ HasSuffix(key, e)
    /\ \A f \in Range(supportedExts(vs)) : HasSuffix(key, f) => Len(f) <= Len(e)

\* key without the longest suffix vs knows
Stripped(vs, key) == TrimSuffix(key, LongestKnownExt(vs, key))

(* C13: listings are not deduplicated.  A successful List or ListInfo     *)
(* returns exactly one entry for each object of the backend's listing:    *)
(* the object's name with the suffix the instance knows removed, and for  *)
(* ListInfo the backend's FileInfo with only Path replaced.  A logical    *)
(* name therefore appears once for every listed variant of it.            *)
C13_ListNoDedup ==
  /\ (call.op = "List" /\ call.err = Nil)
       => LET l == BackendList(kind, pre, dirs, call.path)
          IN  /\ DOMAIN call.entries = l.keys
              /\ \A key \in l.keys : call.entries[key] = Stripped(call.vs, key)
              /\ \A key \in l.keys :
                    Cardinality({o \in DOMAIN call.entries :
                                   call.entries[o] = call.entries[key]})
                      = Cardinality({o \in l.keys :
                                       Stripped(call.vs, o) = Stripped(call.vs, key)})
  /\ (call.op = "ListInfo" /\ call.err = Nil)
       => \E t \in Times :
            LET l == BackendListInfo(kind, pre, dirs, call.path, t)
            IN  /\ DOMAIN call.infos = DOMAIN l.infos
                /\ \A key \in DOMAIN l.infos :
                      call.infos[key] =
                        [l.infos[key] EXCEPT !.Path = Stripped(call.vs, key)]
  /\ call.op \in {"List", "ListInfo"} => files = pre

C13_Witness ==
  /\ call.op = "ListInfo" /\ call.err = Nil
  /\ \E a \in DOMAIN call.infos, b \in DOMAIN call.infos :
       /\ a # b
       /\ call.infos[a].Path = call.infos[b].Path
       /\ call.infos[a].Size # call.infos[b].Size
       /\ call.infos[a].Path \in LogicalPaths

\* the algorithms a suffix needs are all configured in alg
Configured(alg, e) ==
  \A i \in DOMAIN e :
    /\ e[i] = ".gz" => alg.Gzip
    /\ e[i] = ".zst" => alg.Zstd
    /\ e[i] = ".aes" => alg.AES

\* the documented list restricted to the suffixes alg can produce
ConfiguredExts(alg) == SelectSeq(PriorityOrder, LAMBDA e : Configured(alg, e))

(* C14: construction.  NewVariadicStorage(alg, writeExt) returns an        *)
(* instance and no error exactly when writeExt is one of supportedExts()   *)
(* for alg; for any other writeExt it returns an error and the nil         *)
(* instance.  Every instance in use has its write suffix among its         *)
(* supportedExts().                                                        *)
C14_Construction ==
  /\ call.op = "New"
       => LET vs == [alg |-> call.alg, writeExt |-> call.writeExt]
          IN  IF call.writeExt \in Range(supportedExts(vs))
                THEN call.err = Nil /\ call.vs = vs
                ELSE call.err # Nil /\ call.vs = NilStorage
  /\ call.op \in {"supportedExts", "encodePath", "decodePath"}
       => /\ call.vs.alg = call.alg
          /\ call.vs.writeExt = call.writeExt
          /\ call.vs.writeExt \in Range(supportedExts(call.vs))

C14_Witness ==
  /\ call.op = "New" /\ call.err = ErrWriteExt /\ call.vs = NilStorage
  /\ call.writeExt = ExtGzAes
  /\ call.alg.Gzip /\ ~call.alg.AES

(* C15: supportedExts() depends on the Algorithms set alone and is the     *)
(* list .gz.aes, .zst.aes, .gz, .zst, .aes, "" restricted to the suffixes  *)
(* whose algorithms are configured, in that order and without duplicates;  *)
(* the empty suffix is always there and always last.                       *)
C15_SupportedExts ==
  call.op = "supportedExts"
    => /\ call.exts = ConfiguredExts(call.alg)
       /\ \A w \in AllExts :
            isSupportedWriteExt(call.alg, w)
              => supportedExts([alg |-> call.alg, writeExt |-> w]) = call.exts
       /\ \A i \in DOMAIN call.exts, j \in DOMAIN call.exts :
            i < j => /\ call.exts[i] # call.exts[j]
                     /\ Rank(call.exts[i]) < Rank(call.exts[j])
       /\ call.exts[Len(call.exts)] = ExtPlain

C15_Witness ==
  /\ call.op = "supportedExts"
  /\ call.alg = [Gzip |-> TRUE, Zstd |-> FALSE, AES |-> TRUE]
  /\ call.writeExt = ExtAes
  /\ call.exts = <<ExtGzAes, ExtGz, ExtAes, ExtPlain>>

(* C16: encode/decode identity.  For every instance, every suffix e it     *)
(* knows and every path p that does not end in a suffix it knows,          *)
(* decodePath(p + e) = p, and so decodePath(encodePath(p)) = p.            *)
(* decodePath removes at most one suffix of the list, and removes a        *)
(* combined suffix whole.                                                  *)
C16_EncodeDecode ==
  /\ call.op = "decodePath"
       => /\ \A e \in Range(supportedExts(call.vs)) :
               (/\ HasSuffix(call.path, e)
                /\ ~EndsInKnownExt(call.vs, TrimSuffix(call.path, e)))
                 => call.name = TrimSuffix(call.path, e)
          /\ \E e \in Range(supportedExts(call.vs)) : call.name \o e = call.path
          /\ (/\ call.vs.alg.Gzip /\ call.vs.alg.AES
              /\ HasSuffix(call.path, ExtGzAes))
               => call.name = TrimSuffix(call.path, ExtGzAes)
  /\ (call.op = "encodePath" /\ ~EndsInKnownExt(call.vs, call.path))
       => /\ call.name = call.path \o call.vs.writeExt
          /\ decodePath(call.vs, call.name) = call.path

C16_Witness ==
  /\ call.op = "decodePath"
  /\ call.path = Dir \o <<"a">> \o ExtGzAes
  /\ Len(supportedExts(call.vs)) = 6
  /\ call.name = Dir \o <<"a">>

\* the suffix of a fixed-format storage: its compressor's extension, then
\* its crypter's
SuffixOfTransforming(ts) ==
  (CASE ts.Compressor = "gzip" -> ExtGz
     [] ts.Compressor = "zstd" -> ExtZst
     [] OTHER -> ExtPlain)
  \o (IF ts.Crypter = "aes" THEN ExtAes ELSE ExtPlain)

(* C17: fixed-format mapping.  TransformingStorage.Put(p, data) creates   *)
(* or overwrites exactly one backend object, at p + compressor extension  *)
(* + crypter extension, and Get, Exists and Delete of p go to that same   *)
(* key: after the Put, Get(p) returns data and Exists(p) is true, and     *)
(* after Delete(p) Exists(p) is false.                                    *)
C17_FixedFormat ==
  LET key == call.path \o SuffixOfTransforming(call.ts)
  IN  /\ (call.op = "TsPut" /\ call.err = Nil)
           => /\ call.log = <<<<"Put", key>>>>
              /\ DOMAIN files = DOMAIN pre \cup {key}
              /\ \A k \in DOMAIN pre \ {key} : files[k] = pre[k]
              /\ TsGet(call.ts, call.path, kind, files).err = Nil
              /\ TsGet(call.ts, call.path, kind, files).rc = Bytes(call.data)
              /\ TsExists(call.ts, call.path, kind, files).ok
              /\ LET d == TsDelete(call.ts, call.path, kind, files)
                 IN  /\ d.err = Nil
                     /\ d.files = [k \in DOMAIN files \ {key} |-> files[k]]
                     /\ ~TsExists(call.ts, call.path, kind, d.files).ok
      /\ call.op = "TsGet" => call.log = <<<<"Get", key>>>>
      /\ call.op = "TsExists"
           => /\ call.log = <<<<"Exists", key>>>>
              /\ call.ok = (key \in DOMAIN files)
      /\ call.op = "TsDelete"
           => /\ call.log = <<<<"Delete", key>>>>
              /\ key \notin DOMAIN files
              /\ ~TsExists(call.ts, call.path, kind, files).ok

C17_Witness ==
  /\ call.op = "TsPut" /\ call.err = Nil
  /\ call.ts.Compressor = "zstd" /\ call.ts.Crypter = "aes"
  /\ call.path \o ExtZstAes \in DOMAIN pre
  /\ pre[call.path \o ExtZstAes] # files[call.path \o ExtZstAes]
  /\ Cardinality(DOMAIN files) = 2

MaxOf(S) == CHOOSE x \in S : \A y \in S : y <= x

MinOf(S) == CHOOSE x \in S : \A y \in S : x <= y

\* positions in supportedExts(vs) of the candidates of p whose backend
\* delete, on backend content m, fails with an error that is not not-found:
\* a refused request on S3, a missing key on the in-memory backend, none on
\* the local one
RefusedDeletes(vs, p, m) ==
  {i \in DOMAIN supportedExts(vs) :
     LET candidate == p \o supportedExts(vs)[i]
     IN  CASE kind = "s3" -> Fails(faults, "DeleteObject", candidate)
           [] kind = "mem" -> candidate \notin DOMAIN m
           [] OTHER -> FALSE}

\* the error of the backend delete of a refused candidate
DeleteErrorOf(candidate) ==
  IF kind = "s3" THEN RequestError(candidate) ELSE ErrFileNotFound

\* the error of the last refused candidate of p
LastDeleteError(vs, p, m) ==
  DeleteErrorOf(p \o supportedExts(vs)[MaxOf(RefusedDeletes(vs, p, m))])

\* the backend deletes of every candidate of p, in the order of supportedExts
AllDeletes(vs, p) ==
  [i \in DOMAIN supportedExts(vs) |-> <<"Delete", p \o supportedExts(vs)[i]>>]

RECURSIVE Concat(_)
Concat(ss) == IF ss = <<>> THEN <<>> ELSE Head(ss) \o Concat(Tail(ss))

VariantError(old, m) ==
  IF kind # "s3" THEN Nil
  ELSE IF Fails(faults, "HeadObject", old) THEN RequestError(old)
  ELSE IF old \notin DOMAIN m THEN Nil
  ELSE IF Fails(faults, "CopyObject", old) THEN CopyError(RequestError(old))
  ELSE IF Fails(faults, "DeleteObject", old)
    THEN DeleteSourceError(RequestError(old))
  ELSE Nil

\* positions in supportedExts(vs) of the variants of p whose step fails
FailedVariants(vs, p, m) ==
  {i \in DOMAIN supportedExts(vs) :
     VariantError(p \o supportedExts(vs)[i], m) # Nil}

C20_RenamePartial ==
  (call.op = "Rename" /\ call.path # call.to)
    => LET exts == supportedExts(call.vs)
           failed == FailedVariants(call.vs, call.path, pre)
       IN  /\ \A i \in DOMAIN exts :
                 LET old == call.path \o exts[i]
                     new == call.to \o exts[i]
                 IN  old \in DOMAIN pre
                       => IF i \in failed
                            THEN old \in DOMAIN files /\ files[old] = pre[old]
                            ELSE /\ old \notin DOMAIN files
                                 /\ new \in DOMAIN files
                                 /\ files[new] = pre[old]
           /\ failed # {}
                => /\ call.err # Nil
                   /\ call.err \in {VariantError(call.path \o exts[i], pre) :
                                       i \in failed}

C20_Witness ==
  /\ call.op = "Rename" /\ kind = "s3" /\ call.err # Nil
  /\ call.path = Dir \o <<"a">> /\ call.to = Dir \o <<"b">>
  /\ Fails(faults, "CopyObject", call.path \o ExtGz)
  /\ call.path \o ExtGzAes \in DOMAIN pre
  /\ call.path \o ExtGz \in DOMAIN pre
  /\ call.path \o ExtGzAes \notin DOMAIN files
  /\ call.to \o ExtGzAes \in DOMAIN files
  /\ call.path \o ExtGz \in DOMAIN files
  /\ call.to \o ExtGz \notin DOMAIN files

\* the suffixes of supportedExts(vs) that come before e in it
HigherThan(vs, e) == {x \in Range(supportedExts(vs)) : Rank(x) < Rank(e)}

(* C21: Get overlapping Delete.  A Get that succeeds while a Delete of the *)
(* same or another name is in progress returns the whole decoded content   *)
(* of one variant of its own logical path, a variant that was there when   *)
(* the Get started; every variant it passed over for it either was not     *)
(* there or has been deleted since.  It never returns content of another   *)
(* logical path.  The calls are not serialized: the variant returned can   *)
(* be one of lower priority than a variant that was there at the start.    *)
C21_GetDeleteRace ==
  (race.get.pc = "done" /\ race.get.err = Nil)
    => LET g == race.get
           e == SubSeq(g.name, Len(g.path) + 1, Len(g.name))
       IN  /\ g.name = g.path \o e
           /\ e \in Variants(g.vs, g.path, pre)
           /\ g.rc = DecodedBySuffix(g.vs, g.name, pre)
           /\ g.rc = Bytes(OwnData(g.path))
           /\ g.log[Len(g.log)] = <<"Get", g.name>>
           /\ \A x \in HigherThan(g.vs, e) : g.path \o x \notin DOMAIN files

C21_Witness ==
  /\ race.get.pc = "done" /\ race.get.err = Nil
  /\ race.get.name = race.get.path \o ExtGz
  /\ race.get.path \o ExtGzAes \in DOMAIN pre
  /\ race.get.rc = Bytes("x")
  /\ race.del.pc = "step"
  /\ race.del.path = race.get.path
  /\ race.get.path \o ExtGzAes \notin DOMAIN files
  /\ race.get.name \in DOMAIN files

\* positions of the variants of the Rename in progress that were there at
\* its start and that it has moved so far
MovedSoFar ==
  {j \in 1..(race.ren.i - 1) :
     race.ren.oldBase \o supportedExts(race.ren.vs)[j] \in DOMAIN race.ren.start}

\* positions of the variants that were there at its start and are still to move
StillToMove ==
  {j \in race.ren.i..Len(supportedExts(race.ren.vs)) :
     race.ren.oldBase \o supportedExts(race.ren.vs)[j] \in DOMAIN race.ren.start}

(* C22: Rename is not atomic for readers.  While Rename(old, new) is in    *)
(* progress the variants it has reached are at new and the others still at *)
(* old, one variant moving at a time in the order of supportedExts().  A   *)
(* reader is not held back: its Exists and Get act on the content as it    *)
(* is when they run.  With some variants moved and some not, Exists(old)   *)
(* and Exists(new) are both true and Get(old) returns the content of the   *)
(* first variant not yet moved, one of lower priority than those moved.    *)
C22_RenameNotAtomic ==
  race.ren.pc = "step"
    => LET r == race.ren
           exts == supportedExts(r.vs)
       IN  /\ \A j \in MovedSoFar :
                 /\ r.oldBase \o exts[j] \notin DOMAIN files
                 /\ r.newBase \o exts[j] \in DOMAIN files
                 /\ files[r.newBase \o exts[j]] = r.start[r.oldBase \o exts[j]]
           /\ \A j \in StillToMove :
                 /\ r.oldBase \o exts[j] \in DOMAIN files
                 /\ files[r.oldBase \o exts[j]] = r.start[r.oldBase \o exts[j]]
           /\ (MovedSoFar # {} /\ StillToMove # {})
                => /\ VsExists(r.vs, r.oldBase, kind, files).ok
                   /\ VsExists(r.vs, r.newBase, kind, files).ok
                   /\ VsGet(r.vs, r.oldBase, kind, files).rc =
                        DecodedBySuffix(r.vs, r.oldBase \o exts[MinOf(StillToMove)],
                                        r.start)
           /\ call.op = "Exists"
                => call.ok = (Variants(call.vs, call.path, pre) # {})
           /\ (call.op = "Get" /\ Variants(call.vs, call.path, pre) # {})
                => call.rc = DecodedBySuffix(call.vs,
                                             FirstVariant(call.vs, call.path, pre),
                                             pre)

C22_Witness ==
  /\ race.ren.pc = "step"
  /\ MovedSoFar = {1} /\ StillToMove = {3}
  /\ call.op = "Get" /\ call.path = race.ren.oldBase /\ call.err = Nil
  /\ call.rc = Bytes("y")
  /\ DecodedBySuffix(race.ren.vs, race.ren.oldBase \o ExtGzAes, race.ren.start)
       = Bytes("x")
  /\ VsExists(race.ren.vs, race.ren.oldBase, kind, files).ok
  /\ VsExists(race.ren.vs, race.ren.newBase, kind, files).ok

(* C23: NotFound is a distinguishable error kind at the backend boundary.  *)
(* Get and Delete of an absent key on a backend, the in-memory one         *)
(* included, fail with an error that errors.Is(err, fs.ErrNotExist)        *)
(* recognizes, and leave the store unchanged.                              *)
C23_NotFoundKind ==
  (call.op \in {"Storage.Get", "Storage.Delete"} /\ call.path \notin DOMAIN pre)
    => /\ IsErrNotExist(call.err)
       /\ files = pre

(* C24, as stated: read-your-writes in every state.  After any sequence of *)
(* operations by instances that share the backend and the Algorithms set,  *)
(* a successful Put(p, data) followed at once by Get(p) through the same   *)
(* instance returns data, also when variants of p under other suffixes     *)
(* are stored.                                                             *)
C24_AnyState ==
  (call.op = "Put" /\ call.err = Nil)
    => LET g == VsGet(call.vs, call.path, kind, files)
       IN  g.err = Nil /\ g.rc = Bytes(call.data)

(* C24, amended: the same, when before the Put no variant of p was stored  *)
(* under a suffix that precedes the instance's write suffix in the lookup  *)
(* priority; variants of lower priority and an older object under the      *)
(* write suffix itself may be there.  Otherwise Get(p) returns the content *)
(* of the first stored variant in priority order, which the Put left       *)
(* alone.                                                                  *)
C24_ReadYourWrites ==
  (call.op = "Put" /\ call.err = Nil)
    => LET g == VsGet(call.vs, call.path, kind, files)
           higher == {x \in Variants(call.vs, call.path, pre) :
                        Rank(x) < Rank(call.vs.writeExt)}
       IN  /\ g.err = Nil
           /\ IF higher = {}
                THEN g.rc = Bytes(call.data)
                ELSE g.rc = DecodedBySuffix(call.vs,
                              FirstVariant(call.vs, call.path, pre), pre)

C24_Witness ==
  /\ call.op = "Put" /\ call.err = Nil
  /\ call.vs.writeExt = ExtGz
  /\ call.path \o ExtZst \in DOMAIN pre
  /\ call.path \o ExtGz \in DOMAIN pre
  /\ pre[call.path \o ExtGz].payload # call.data
  /\ pre[call.path \o ExtZst].payload # call.data
  /\ VsGet(call.vs, call.path, kind, files).rc = Bytes(call.data)

(* C25, as stated: rename onto an occupied name.  When old has at least    *)
(* one variant and old # new, after Rename(old, new) returns nil Get(new)  *)
(* returns what Get(old) returned just before and Exists(old) is false,    *)
(* whichever variants of new were stored.                                  *)
C25_OccupiedName ==
  (/\ call.op = "Rename" /\ call.err = Nil
   /\ call.path \in LogicalPaths /\ call.to \in LogicalPaths
   /\ call.path # call.to
   /\ Variants(call.vs, call.path, pre) # {})
    => /\ ~VsExists(call.vs, call.path, kind, files).ok
       /\ VsGet(call.vs, call.to, kind, files).rc
            = VsGet(call.vs, call.path, kind, pre).rc

(* C25, amended: Exists(old) is false in every such case, and every        *)
(* variant of old is at new under its suffix, in place of what new held    *)
(* there.  Get(new) returns what Get(old) returned before when new held no *)
(* variant under a suffix that precedes, in the lookup priority, the first *)
(* suffix old was stored under; a variant of new under such a suffix stays *)
(* as it was, and Get(new) returns the content of the first of them.       *)
C25_RenameOccupied ==
  (/\ call.op = "Rename" /\ call.err = Nil
   /\ call.path \in LogicalPaths /\ call.to \in LogicalPaths
   /\ call.path # call.to
   /\ Variants(call.vs, call.path, pre) # {})
    => LET first == FirstVariant(call.vs, call.path, pre)
           e == SubSeq(first, Len(call.path) + 1, Len(first))
           higher == {x \in Variants(call.vs, call.to, pre) : Rank(x) < Rank(e)}
           g == VsGet(call.vs, call.to, kind, files)
       IN  /\ ~VsExists(call.vs, call.path, kind, files).ok
           /\ \A x \in Variants(call.vs, call.path, pre) :
                 files[call.to \o x] = pre[call.path \o x]
           /\ g.err = Nil
           /\ IF higher = {}
                THEN g.rc = VsGet(call.vs, call.path, kind, pre).rc
                ELSE g.rc = DecodedBySuffix(call.vs,
                              FirstVariant(call.vs, call.to, pre), pre)

C25_Witness ==
  /\ call.op = "Rename" /\ call.err = Nil
  /\ call.path \in LogicalPaths /\ call.to \in LogicalPaths
  /\ call.path # call.to
  /\ DOMAIN pre = {call.path \o ExtGz, call.to \o ExtGz}
  /\ pre[call.path \o ExtGz].payload # pre[call.to \o ExtGz].payload
  /\ DOMAIN files = {call.to \o ExtGz}
  /\ VsGet(call.vs, call.to, kind, files).rc = Bytes(pre[call.path \o ExtGz].payload)

\* the transforms a write suffix names: compression by its first part,
\* encryption when it ends with .aes
NamedBy(writeExt) ==
  [compressor |-> IF HasPrefix(writeExt, ExtGz) THEN "gzip"
                  ELSE IF HasPrefix(writeExt, ExtZst) THEN "zstd" ELSE Nil,
   crypter |-> IF HasSuffix(writeExt, ExtAes) THEN "aes" ELSE Nil]

(* C26: the transforms of Put are those of the write suffix.  For every    *)
(* path given to Put, one that itself ends in a suffix of the list         *)
(* included, the object Put stores is the data compressed iff the write    *)
(* suffix starts with .gz or .zst (by that codec) and encrypted iff it     *)
(* ends with .aes.                                                         *)
C26_WriteSuffixTransforms ==
  (call.op = "Put" /\ call.err = Nil)
    => LET t == NamedBy(call.vs.writeExt)
       IN  files[call.path \o call.vs.writeExt]
             = CompressAndEncryptOptional(Bytes(call.data), t.compressor, t.crypter)

(* C27, as stated: Exists and Get agree.  On a backend that is not being   *)
(* modified, for every path p, a logical name or a name ending in a suffix *)
(* of the list, Exists(p) is true exactly when Get(p) finds an object to   *)
(* read.                                                                   *)
C27_Agree ==
  call.op = "Exists"
    => (call.ok <=> VsGet(call.vs, call.path, kind, files).err = Nil)

(* C27, amended: whenever Get(p) finds an object, Exists(p) is true, and   *)
(* for a logical name the two agree.  For a name p that ends in a suffix   *)
(* the instance knows, Get(p) finds an object exactly when p itself is     *)
(* stored, while Exists(p) is true exactly when p + e is stored for some   *)
(* suffix e of the list: with only p + e stored under a non-empty e,       *)
(* Exists(p) is true and Get(p) fails.                                     *)
C27_ExistsGet ==
  call.op = "Exists"
    => LET g == VsGet(call.vs, call.path, kind, files)
       IN  /\ g.err = Nil => call.ok
           /\ ~EndsInKnownExt(call.vs, call.path) => (call.ok <=> g.err = Nil)
           /\ EndsInKnownExt(call.vs, call.path)
                => /\ g.err = Nil <=> call.path \in DOMAIN files
                   /\ call.ok <=> Variants(call.vs, call.path, files) # {}

C27_Witness ==
  /\ call.op = "Exists" /\ call.ok
  /\ call.vs.alg.Gzip /\ call.vs.alg.AES
  /\ \E p \in LogicalPaths :
       /\ call.path = p \o ExtGz
       /\ p \o ExtGz \notin DOMAIN files
       /\ p \o ExtGzAes \in DOMAIN files
       /\ VsGet(call.vs, call.path, kind, files).err # Nil
       /\ VsGet(call.vs, p, kind, files).err = Nil

(* C28: DeleteAllBulk of the fixed-format wrapper leaves the caller's path *)
(* list as it was given, so that a second call with the same list asks for *)
(* the deletion of the same keys path + suffix as the first.               *)
C28_SliceUnchanged ==
  call.op = "TsDeleteAllBulk"
    => /\ call.slice = call.paths
       /\ TsDeleteAllBulk(call.ts, call.slice, kind, files, dirs).log = call.log

(* C29: bulk delete through the fixed-format wrapper removes the listed    *)
(* objects only.  On every backend (in-memory, local, S3) DeleteAllBulk    *)
(* removes only objects whose key equals the physical key path + suffix of *)
(* a listed path or lies under it as a directory (key + "/" ...); every    *)
(* other object stays as it was, one whose key merely begins with a listed *)
(* key included.                                                           *)
C29_BulkDeletesListedOnly ==
  call.op = "TsDeleteAllBulk"
    => \A key \in DOMAIN pre :
         LET listed == \E i \in DOMAIN call.paths :
                         LET physical == tsEncodePath(call.ts, call.paths[i])
                         IN  key = physical \/ HasPrefix(key, physical \o Slash)
         IN  IF key \in DOMAIN files THEN files[key] = pre[key] ELSE listed

(* C30: isolation between logical paths.  For distinct logical paths p and *)
(* q, neither ending in a suffix of the list, Put(p), Get(p), Exists(p)    *)
(* and Delete(p) neither create nor change nor remove an object q + e, and *)
(* neither does Rename(p, r) when r # q; Get(q) and Exists(q) give after   *)
(* the call what they gave before it.                                      *)
C30_Isolation ==
  (call.op \in {"Put", "Get", "Exists", "Delete", "Rename"}
     /\ call.path \in IsolationPaths)
    => \A q \in IsolationPaths \ {call.path} :
         (call.op = "Rename" => q # call.to)
           => /\ \A e \in AllExts :
                   /\ q \o e \in DOMAIN files <=> q \o e \in DOMAIN pre
                   /\ q \o e \in DOMAIN files => files[q \o e] = pre[q \o e]
              /\ VsGet(call.vs, q, kind, files) = VsGet(call.vs, q, kind, pre)
              /\ VsExists(call.vs, q, kind, files) = VsExists(call.vs, q, kind, pre)

C30_Witness ==
  /\ call.op = "Rename" /\ call.err = Nil
  /\ call.path = Dir \o <<"a">> /\ call.to = Dir \o <<"c">>
  /\ DOMAIN pre = {Dir \o <<"a">> \o ExtGz, Dir \o <<"b">> \o ExtGz}
  /\ DOMAIN files = {Dir \o <<"c">> \o ExtGz, Dir \o <<"b">> \o ExtGz}
  /\ files[Dir \o <<"c">> \o ExtGz] = pre[Dir \o <<"a">> \o ExtGz]
  /\ files[Dir \o <<"b">> \o ExtGz] = pre[Dir \o <<"b">> \o ExtGz]
  /\ VsGet(call.vs, Dir \o <<"b">>, kind, files).rc = Bytes("y")

\* positions in supportedExts(vs) of the candidates of p whose existence
\* probe the backend refuses
RefusedProbes(vs, p) ==
  {i \in DOMAIN supportedExts(vs) :
     kind = "s3" /\ Fails(faults, "HeadObject", p \o supportedExts(vs)[i])}

\* positions of the candidates of p that are stored and whose probe answers
FoundProbes(vs, p, m) ==
  {i \in DOMAIN supportedExts(vs) \ RefusedProbes(vs, p) :
     p \o supportedExts(vs)[i] \in DOMAIN m}

(* C31: probe errors stop resolution.  When, in the priority search of Get *)
(* or Exists, the existence probe of a candidate fails before any          *)
(* candidate was found, the operation returns that error unchanged at      *)
(* once - Exists with false, Get with no stream: the candidates after it   *)
(* are not probed and nothing is fetched, also when a variant of lower     *)
(* priority is stored.                                                     *)
C31_ProbeErrorStops ==
  (/\ call.op \in {"Get", "Exists"}
   /\ ~EndsInKnownExt(call.vs, call.path)
   /\ RefusedProbes(call.vs, call.path) # {}
   /\ \A j \in FoundProbes(call.vs, call.path, pre) :
        j > MinOf(RefusedProbes(call.vs, call.path)))
    => LET exts == supportedExts(call.vs)
           i == MinOf(RefusedProbes(call.vs, call.path))
       IN  /\ call.err = RequestError(call.path \o exts[i])
           /\ ~call.ok
           /\ call.rc = NoStream
           /\ call.log = [j \in 1..i |-> <<"Exists", call.path \o exts[j]>>]
           /\ files = pre

C31_Witness ==
  /\ call.op = "Get" /\ call.path = Dir \o <<"a">>
  /\ RefusedProbes(call.vs, call.path) = {3}
  /\ FoundProbes(call.vs, call.path, pre) = {4, 6}
  /\ call.err = "api error SlowDown"
  /\ Len(call.log) = 3
  /\ VsExists(call.vs, call.path, kind, files).err = "api error SlowDown"

(* C32: Rename of the in-memory backend.  With old = new it returns nil    *)
(* and changes nothing.  Otherwise, when the context is cancelled or old   *)
(* is absent, it returns an error and the store is as before.  Otherwise   *)
(* new holds afterwards what old held, in place of what new held before,   *)
(* old is absent, and every other key is unchanged.                        *)
C32_InMemoryRename ==
  call.op = "Storage.Rename"
    => IF call.path = call.to
         THEN call.err = Nil /\ files = pre
       ELSE IF call.ctx # "live" \/ call.path \notin DOMAIN pre
         THEN call.err # Nil /\ files = pre
       ELSE /\ call.err = Nil
            /\ DOMAIN files = (DOMAIN pre \ {call.path}) \cup {call.to}
            /\ files[call.to] = pre[call.path]
            /\ \A key \in DOMAIN pre \ {call.path, call.to} : files[key] = pre[key]

C32_Witness ==
  /\ call.op = "Storage.Rename" /\ call.err = Nil /\ call.ctx = "live"
  /\ call.path # call.to
  /\ DOMAIN pre = {call.path, call.to}
  /\ pre[call.path] # pre[call.to]
  /\ DOMAIN files = {call.to}
  /\ files[call.to] = pre[call.path]

\* the probes of the first n candidates of base, in the order of the list
ProbesOf(vs, base, n) ==
  [j \in 1..n |-> <<"Exists", base \o supportedExts(vs)[j]>>]

\* positions in supportedExts(vs) of the candidates of base stored in m
StoredAt(vs, base, m) ==
  {j \in DOMAIN supportedExts(vs) : base \o supportedExts(vs)[j] \in DOMAIN m}

\* one pass over the list from position i: each candidate of old probed, and
\* renamed right after its probe when it is stored
RECURSIVE OnePass(_, _, _, _, _)
OnePass(vs, i, old, new, m) ==
  IF i > Len(supportedExts(vs)) THEN <<>>
  ELSE LET e == supportedExts(vs)[i]
       IN  <<<<"Exists", old \o e>>>>
             \o (IF old \o e \in DOMAIN m
                   THEN <<<<"Rename", old \o e, new \o e>>>> ELSE <<>>)
             \o OnePass(vs, i + 1, old, new, m)

(* C33: linear scan without retries.  Get of a logical name and Exists     *)
(* probe the candidates base + e in the order of supportedExts(), stop at  *)
(* the first that exists and probe none twice; Get then fetches that       *)
(* candidate once and, when the fetch fails, returns its error without     *)
(* turning to another candidate.  Delete and Rename visit every candidate  *)
(* once, in the same order.  No operation makes more rounds than the list  *)
(* has suffixes.                                                           *)
C33_LinearScan ==
  LET vs == call.vs
      n == Len(supportedExts(vs))
      stored == StoredAt(vs, call.path, pre)
      last == IF stored = {} THEN n ELSE MinOf(stored)
      probes == ProbesOf(vs, call.path, last)
      rounds == Cardinality({j \in DOMAIN call.log : call.log[j][1] # "Rename"
                                                       /\ call.log[j][1] # "Get"})
  IN  /\ call.op = "Exists" => call.log = probes
      /\ (call.op = "Get" /\ ~EndsInKnownExt(vs, call.path))
           => /\ call.log = IF stored = {} THEN probes
                             ELSE Append(probes,
                                    <<"Get", call.path \o supportedExts(vs)[last]>>)
              /\ call.err # Nil => call.rc = NoStream
      /\ call.op = "Delete"
           => call.log = [j \in 1..n |->
                            <<"Delete", call.path \o supportedExts(vs)[j]>>]
      /\ (call.op = "Rename" /\ call.path # call.to)
           => call.log = OnePass(vs, 1, call.path, call.to, pre)
      /\ call.op \in {"Exists", "Get", "Delete", "Rename"} => rounds <= n

C33_Witness ==
  /\ call.op = "Get" /\ kind = "s3"
  /\ call.path = Dir \o <<"a">>
  /\ StoredAt(call.vs, call.path, pre) = {3, 6}
  /\ Len(call.log) = 4
  /\ call.log[4] = <<"Get", call.path \o ExtGz>>
  /\ call.err = ReadError("api error SlowDown")
  /\ call.rc = NoStream
  /\ files = pre

(* C34: transformsFromName mirrors the order in which the write side       *)
(* appends the suffixes.  For every suffix e of supportedExts() and every  *)
(* base name that ends in no suffix of the list, transformsFromName(base + *)
(* e) selects the AES crypter iff e ends with .aes, the gzip pair iff e    *)
(* starts with .gz, the zstd pair iff e starts with .zst, and nothing for  *)
(* the empty suffix; the result is the same for every write suffix of the  *)
(* instance.                                                               *)
C34_TransformsFromName ==
  call.op = "transformsFromName"
    => /\ \A e \in Range(supportedExts(call.vs)) :
            (/\ HasSuffix(call.path, e)
             /\ ~EndsInKnownExt(call.vs, TrimSuffix(call.path, e)))
              => /\ call.transforms.crypter = NamedBy(e).crypter
                 /\ call.transforms.compressor = NamedBy(e).compressor
                 /\ call.transforms.decompressor = NamedBy(e).compressor
                 /\ e = ExtPlain
                      => call.transforms = NoCall.transforms
       /\ \A w \in Range(supportedExts(call.vs)) :
            call.transforms
              = transformsFromName([alg |-> call.alg, writeExt |-> w], call.path)

C34_Witness ==
  /\ call.op = "transformsFromName"
  /\ call.alg = [Gzip |-> TRUE, Zstd |-> TRUE, AES |-> TRUE]
  /\ call.writeExt = ExtZst
  /\ call.path = Dir \o <<"a">> \o ExtGzAes
  /\ call.transforms = [compressor |-> "gzip", decompressor |-> "gzip",
                        crypter |-> "aes"]

====
